---- MODULE Spec2Model ----
(***************************************************************************)
(* Medication reminder notifications: the reminder records stored under    *)
(* the "reminders" key, the Ledger stored under "scheduled_notifications", *)
(* the trigger backend (notifee) and the handlers that act on them.        *)
(*                                                                         *)
(* Every handler is an async function.  It is modelled as a program: the   *)
(* sequence of its awaited calls.  A task runs one program; one step of a  *)
(* task is the completion of one awaited call together with the            *)
(* synchronous code that follows it up to the next await.  Time is in      *)
(* milliseconds since the start of day 0 (local time).                     *)
(***************************************************************************)
EXTENDS Integers, Sequences, FiniteSets, TLC

VARIABLES
    now,            \* Date.now()
    isInitialized,  \* NotificationManager.isInitialized (the app is alive)
    reminders,      \* AsyncStorage "reminders": [present, items]
    ledger,         \* AsyncStorage "scheduled_notifications": set of rows
    triggers,       \* notifee: live trigger notifications
    displayed,      \* notifee: notifications shown to the user
    tasks,          \* the running async handlers
    par,            \* how many handlers may be in flight at once
    ops,            \* handlers that may still be started
    ticks,          \* clock advances so far
    lastEvent,      \* the last action event delivered (it can be redelivered)
    lastDone,       \* the outcome of the last handler that completed
    acked,          \* reminder ids whose "taken"/"missed" write has been stored
    hookReminders,  \* useReminders: the `reminders` state of the mounted hook
    listeners,      \* notifee: foreground event listeners registered so far
    cache,          \* StorageManager.cache
    pendingWrites,  \* StorageManager.pendingWrites: key -> the set call that owns the write
    durable,        \* AsyncStorage as StorageManager sees it: key -> value
    native,         \* AsyncStorage requests issued and not yet answered, oldest first
    calls           \* the get/set/remove calls made on the StorageManager

(* The StorageManager singleton and the storage under it *)
storeVars == <<cache, pendingWrites, durable, native, calls>>

vars == <<now, isInitialized, reminders, ledger, triggers, displayed, tasks,
          par, ops, ticks, lastEvent, lastDone, acked, hookReminders,
          listeners, storeVars>>

----------------------------------------------------------------------------
(* Program constants *)

MAX_SNOOZE_COUNT == 3
SNOOZE_DURATION_MS == 900000
REMINDER_TIMEOUT_MS == 900000
REPEAT_NOTIFICATION_INTERVALS == <<5, 10, 15>>
MS_PER_MINUTE == 60000
MS_PER_DAY == 86400000
TIMEOUT_AFTER_MS == 900000

(* Bounds of the model *)

MaxOps == 2
MaxTicks == 1

Ids == {"r1", "r2"}
OpIds == {"r1"}
TaskIds == {1, 2}
NoValue == 0 - 1

----------------------------------------------------------------------------
(* StorageManager (storage.ts): values, calls and the state of a manager   *)
(* nobody has called yet.  The calls are numbered in the order they are    *)
(* issued; the call numbered c of set writes the value <<"v", c>>.         *)

Keys == {"reminders"}
CallIds == 1..(MaxOps + 1)
Absent == <<"null", 0>>
Stored0 == <<"v", 0>>
ValueOf(c) == <<"v", c>>
Ok == <<"ok", 0>>
Err == <<"error", 0>>
NoExpect == <<"any", 0>>

NoCall == [op |-> "none", key |-> "none", value |-> Absent, state |-> "idle",
           awaits |-> 0, result |-> Absent, failed |-> FALSE,
           expect |-> NoExpect]

StoreNew ==
    /\ cache = [k \in Keys |-> Absent]
    /\ pendingWrites = [k \in Keys |-> 0]
    /\ native = <<>>
    /\ calls = [c \in CallIds |-> NoCall]

StoreUnused == StoreNew /\ durable = [k \in Keys |-> Absent]

----------------------------------------------------------------------------
(* Trigger ids: the primary trigger of a reminder has the reminder's id,   *)
(* an escalation trigger has `${reminderId}_repeat_${interval}`.  The pair *)
(* <<id, 0>> stands for the first, <<id, k>> for the second.               *)

RepeatId(reminderId, interval) == <<reminderId, interval>>
PrimaryId(reminderId) == <<reminderId, 0>>
NoId == <<"none", 0>>
Intervals == {REPEAT_NOTIFICATION_INTERVALS[i] : i \in 1..Len(REPEAT_NOTIFICATION_INTERVALS)}
TriggerIdsOf(reminderId) ==
    {PrimaryId(reminderId)} \cup {RepeatId(reminderId, k) : k \in Intervals}

(* Dates and times.  A record keeps its due moment as two strings, the     *)
(* date "YYYY-MM-DD" and the time "HH:mm"; the model keeps the day number  *)
(* and the minute of the day, which is what the strings hold.              *)

formatISODate(date) == date \div MS_PER_DAY
formatTimeFromDate(date) == (date % MS_PER_DAY) \div MS_PER_MINUTE
parseDateTimeString(date, time) == date * MS_PER_DAY + time * MS_PER_MINUTE
DueTime(r) == parseDateTimeString(r.date, r.time)

----------------------------------------------------------------------------
(* Pure functions of the handlers *)

IsTerminal(status) == status = "taken" \/ status = "missed"

(* The aging rule without its guard for records already taken or missed *)
applyStatusRules_Unguarded(items, t) ==
    [i \in DOMAIN items |->
        IF t >= DueTime(items[i]) + REMINDER_TIMEOUT_MS
        THEN [items[i] EXCEPT !.status = "missed"]
        ELSE [items[i] EXCEPT !.status = "pending"]]

(* A list operation without the aging rule *)
applyStatusRules_Skipped(items, t) == items

(* The aging rule with a grace window that ends one instant later *)
applyStatusRules_After(items, t) ==
    [i \in DOMAIN items |->
        IF IsTerminal(items[i].status)
        THEN items[i]
        ELSE IF t > DueTime(items[i]) + REMINDER_TIMEOUT_MS
             THEN [items[i] EXCEPT !.status = "missed"]
             ELSE [items[i] EXCEPT !.status = "pending"]]

(* applyStatusRules: the aging rule applied to a list of records *)
applyStatusRules(items, t) ==
    [i \in DOMAIN items |->
        IF IsTerminal(items[i].status)
        THEN items[i]
        ELSE IF t >= DueTime(items[i]) + REMINDER_TIMEOUT_MS
             THEN [items[i] EXCEPT !.status = "missed"]
             ELSE [items[i] EXCEPT !.status = "pending"]]

(* A map that sets the status of every record, whatever its id *)
MarkStatus_AllRecords(items, reminderId, status) ==
    [i \in DOMAIN items |-> [items[i] EXCEPT !.status = status]]

(* reminders.map(r => r.id === reminderId ? { ...r, status } : r) *)
MarkStatus(items, reminderId, status) ==
    [i \in DOMAIN items |->
        IF items[i].id = reminderId
        THEN [items[i] EXCEPT !.status = status]
        ELSE items[i]]

(* reminders.findIndex(r => r.id === reminderId); 0 stands for -1 *)
findIndex(items, reminderId) ==
    IF \E i \in DOMAIN items : items[i].id = reminderId
    THEN CHOOSE i \in DOMAIN items :
            /\ items[i].id = reminderId
            /\ \A j \in DOMAIN items : items[j].id = reminderId => i <= j
    ELSE 0

(* reminder.snoozeCount || 0 *)
SnoozeCountOf(reminder) ==
    IF reminder.snoozeCount = NoValue THEN 0 ELSE reminder.snoozeCount

(* A postpone that copies the current date and time into the original     *)
(* fields every time                                                       *)
SnoozedReminder_AlwaysCopies(reminder, t) ==
    LET snoozeTime == t + SNOOZE_DURATION_MS IN
    [reminder EXCEPT !.originalTime = reminder.time,
                     !.originalDate = reminder.date,
                     !.time = formatTimeFromDate(snoozeTime),
                     !.date = formatISODate(snoozeTime),
                     !.snoozeCount = SnoozeCountOf(reminder) + 1]

(* The record a postpone handled at time t writes back *)
SnoozedReminder(reminder, t) ==
    LET snoozeTime == t + SNOOZE_DURATION_MS
        currentSnoozeCount == SnoozeCountOf(reminder)
        kept == IF currentSnoozeCount = 0
                THEN [reminder EXCEPT !.originalTime = reminder.time,
                                      !.originalDate = reminder.date]
                ELSE reminder
    IN  [kept EXCEPT !.time = formatTimeFromDate(snoozeTime),
                     !.date = formatISODate(snoozeTime),
                     !.snoozeCount = currentSnoozeCount + 1]

(* createNotificationActions: the press actions a prompt offers *)
createNotificationActions(snoozeCount) ==
    IF snoozeCount < 3 THEN {"take", "snooze", "skip"} ELSE {"take", "skip"}

(* scheduled.filter(n => n.reminderId !== reminderId) *)
WithoutRow(scheduled, id) == {n \in scheduled : n.reminderId # id}

(* A save that pushes the new entry without dropping the old one *)
WithRow_Appended(scheduled, notification) == scheduled \cup {notification}

(* saveScheduledNotification: drop the old entry, push the new one *)
WithRow(scheduled, notification) ==
    WithoutRow(scheduled, notification.reminderId) \cup {notification}

LedgerRow(id, time) ==
    [reminderId |-> id, notificationId |-> id, scheduledTime |-> time]

(* notifee.cancelNotification(id): the trigger and the shown notification *)
CancelTrigger(set, id) == {n \in set : n.id # id}

(* notifee.createTriggerNotification: a trigger of the same id is replaced *)
CreateTrigger(set, id, timestamp, reminderId, snoozeCount) ==
    CancelTrigger(set, id) \cup
        {[id |-> id, timestamp |-> timestamp, reminderId |-> reminderId,
          snoozeCount |-> snoozeCount]}

(* The fire time of the trigger <<reminderId, k>> of a schedule at `date` *)
FireTime(date, k) == date + k * MS_PER_MINUTE

----------------------------------------------------------------------------
(* Programs.  An instruction is one awaited call; k is the escalation      *)
(* offset of the trigger it is about (0: the primary trigger).             *)
(*   loadReminders  AsyncStorage.getItem('reminders')                      *)
(*   storeTaken, storeMissed, storeSnoozed, storeAged                      *)
(*                  AsyncStorage.setItem('reminders', ...)                 *)
(*   loadSnooze     getItem('reminders') and the postpone computation      *)
(*   ldL, rmL, svL  getItem / setItem of the Ledger, removing or saving    *)
(*                  the row of trigger k                                   *)
(*   findL          getScheduledNotifications() and find()                 *)
(*   loadPrune, storePruned   cleanup()'s read and write of the Ledger     *)
(*   cancel, create notifee.cancelNotification / createTriggerNotification *)
(*   cancelPressed  notifee.cancelNotification(notification.id)            *)
(*   awaitAll       Promise.all over the three escalation cancellations    *)
(*   ensureInit     await this.initialize()                                *)
(*   checkDate, checkRepeat   the synchronous `<= Date.now()` tests        *)
(*   missingExport  await import(...) of a name the module does not export *)
(*   saveFiltered   saveReminders(filtered): setItem('reminders', ...)       *)
(*   findMany       cancelNotifications: the read and the two filters        *)
(*   cancelEach     one pass of `for (const notificationId of ...)`          *)
(*   saveRemaining  saveAllScheduledNotifications(remaining)                 *)
(*   cancelAll      notifee.cancelAllNotifications()                         *)
(*   removeItem     AsyncStorage.removeItem(STORAGE_KEY)                     *)
(*   fetchLoad      fetchReminders: getItem('reminders'), setReminders()     *)
(*   getTriggers    notifee.getTriggerNotifications() and existingIds        *)
(*   loadValid      restoreNotifications: the read, Date.now(), the filter   *)
(*   storeValid     saveAllScheduledNotifications(validStored)               *)
(*   nextReminder   one pass of `for (const reminder of reminders)` up to    *)
(*                  the call of scheduleNotification (synchronous)           *)

I(op, k) == [op |-> op, k |-> k]

RECURSIVE Flatten(_)
Flatten(ss) == IF ss = <<>> THEN <<>> ELSE Head(ss) \o Flatten(Tail(ss))

(* await notifee.cancelNotification(repeatId);                             *)
(* await removeScheduledNotification(repeatId)                             *)
CancelRepeat(k) == <<I("cancel", k), I("ldL", k), I("rmL", k)>>

(* for (const interval of REPEAT_NOTIFICATION_INTERVALS) { ... } *)
CancelRepeatsLoop ==
    Flatten([i \in 1..Len(REPEAT_NOTIFICATION_INTERVALS) |->
                CancelRepeat(REPEAT_NOTIFICATION_INTERVALS[i])])

(* An acknowledge that clears the Ledger row before it stores the status *)
handleTakeAction_RowFirst ==
    <<I("ldL", 0), I("rmL", 0), I("loadReminders", 0), I("storeTaken", 0),
      I("awaitAll", 0)>>

(* notificationHandlers.ts *)
handleTakeAction ==
    <<I("loadReminders", 0), I("storeTaken", 0), I("ldL", 0), I("rmL", 0),
      I("awaitAll", 0)>>

handleSkipAction ==
    <<I("loadReminders", 0), I("storeMissed", 0), I("ldL", 0), I("rmL", 0),
      I("awaitAll", 0)>>

cancelNotificationWithRepeats ==
    <<I("cancel", 0), I("ldL", 0), I("rmL", 0)>> \o CancelRepeatsLoop

handleSnoozeAction ==
    <<I("loadSnooze", 0), I("storeSnoozed", 0)>>
        \o cancelNotificationWithRepeats \o <<I("missingExport", 0)>>

(* index.js: the handler, then notifee.cancelNotification(notification.id) *)
onBackgroundEvent(handler) == handler \o <<I("cancelPressed", 0)>>

(* NotificationManager.ts *)
cancelNotification ==
    <<I("findL", 0), I("cancel", 0), I("ldL", 0), I("rmL", 0)>>
        \o CancelRepeatsLoop

ScheduleRepeat(k) ==
    <<I("checkRepeat", k), I("create", k), I("ldL", k), I("svL", k)>>

scheduleRepeatNotifications ==
    Flatten([i \in 1..3 |-> ScheduleRepeat(<<5, 10, 15>>[i])])

(* NotificationManager.initialize(): returns at once when isInitialized is *)
(* set; otherwise requestPermission and createChannel are awaited, then    *)
(* setupEventHandlers() runs and isInitialized is set.                     *)
initialize == <<I("ensureInit", 0)>>

scheduleNotification ==
    <<I("ensureInit", 0), I("checkDate", 0), I("create", 0), I("ldL", 0),
      I("svL", 0)>> \o scheduleRepeatNotifications

NM_handleTakeAction ==
    <<I("loadReminders", 0), I("storeTaken", 0), I("ldL", 0), I("rmL", 0)>>
        \o CancelRepeatsLoop

NM_handleSkipAction ==
    <<I("loadReminders", 0), I("storeMissed", 0), I("ldL", 0), I("rmL", 0)>>
        \o CancelRepeatsLoop

NM_handleSnoozeAction ==
    <<I("loadSnooze", 0), I("storeSnoozed", 0)>>
        \o cancelNotification \o scheduleNotification

cleanup == <<I("loadPrune", 0), I("storePruned", 0)>>

(* The list operation: load the records, apply the aging rule, store *)
listReminders == <<I("loadReminders", 0), I("storeAged", 0)>>

(* NotificationManager.cancelNotifications(reminderIds) *)
cancelNotifications ==
    <<I("findMany", 0), I("cancelEach", 0), I("saveRemaining", 0)>>

(* NotificationManager.cancelAllNotifications() *)
cancelAllNotifications == <<I("cancelAll", 0), I("removeItem", 0)>>

(* NotificationManager.restoreNotifications(reminders): the loop runs once *)
(* for each reminder of the list.                                          *)
restoreNotifications ==
    <<I("getTriggers", 0), I("loadValid", 0), I("storeValid", 0)>>
        \o Flatten([j \in 1..Cardinality(Ids) |->
                        <<I("nextReminder", j)>> \o scheduleNotification])

(* useReminders.ts *)
fetchReminders == <<I("fetchLoad", 0)>> \o restoreNotifications \o cleanup

deleteReminder == <<I("saveFiltered", 0)>> \o cancelNotification

deleteByCourse == <<I("saveFiltered", 0)>> \o cancelNotifications

(* updateReminderStatus(id, status) with status 'taken' or 'missed' *)
updateReminderStatus == <<I("saveFiltered", 0)>> \o cancelNotification

Program(kind) ==
    CASE kind = "bgTake"   -> onBackgroundEvent(handleTakeAction)
      [] kind = "bgSkip"   -> onBackgroundEvent(handleSkipAction)
      [] kind = "bgSnooze" -> onBackgroundEvent(handleSnoozeAction)
      [] kind = "fgTake"   -> NM_handleTakeAction
      [] kind = "fgSkip"   -> NM_handleSkipAction
      [] kind = "fgSnooze" -> NM_handleSnoozeAction
      [] kind = "register" -> scheduleNotification
      [] kind = "cancel"   -> cancelNotification
      [] kind = "cleanup"  -> cleanup
      [] kind = "list"     -> listReminders
      [] kind = "delete"   -> deleteReminder
      [] kind = "deleteByCourse" -> deleteByCourse
      [] kind = "update"   -> updateReminderStatus
      [] kind = "cancelAll" -> cancelAllNotifications
      [] kind = "fetch"    -> fetchReminders
      [] kind = "init"     -> initialize
      [] OTHER             -> <<>>

(* Where a `return` inside the handler's try block continues: after the    *)
(* handler, which in index.js is the cancel of the pressed notification.   *)
ReturnPc(kind) ==
    IF kind \in {"bgTake", "bgSkip", "bgSnooze"}
    THEN Len(Program(kind))
    ELSE Len(Program(kind)) + 1

(* One branch of the Promise.all in handleTakeAction / handleSkipAction *)
BranchProgram(b) == CancelRepeat(REPEAT_NOTIFICATION_INTERVALS[b])
Branches == 1..Len(REPEAT_NOTIFICATION_INTERVALS)

----------------------------------------------------------------------------
(* Tasks.  A task's copy of a stored value (items, snap) is dropped once   *)
(* the handler has written it back and reads it no more.                   *)

Snapshot == [reminders |-> reminders.items, ledger |-> ledger, triggers |-> triggers]
EmptySnapshot == [reminders |-> <<>>, ledger |-> {}, triggers |-> {}]

IdleTask ==
    [kind |-> "idle", pc |-> 0, rid |-> "none", nid |-> NoId, T |-> 0,
     cnt |-> 0, items |-> <<>>, snap |-> {},
     br |-> [b \in Branches |-> [pc |-> 1, snap |-> {}]],
     result |-> "none", skipped |-> {}, replay |-> FALSE, callNow |-> 0,
     pre |-> EmptySnapshot, first |-> EmptySnapshot, firstAt |-> 0,
     todo |-> {}, ids |-> {}, failed |-> {}]

NoEvent ==
    [action |-> "none", rid |-> "none", nid |-> NoId,
     post |-> EmptySnapshot, at |-> 0]

NoneDone ==
    [kind |-> "none", rid |-> "none", nid |-> NoId, T |-> 0, result |-> "none",
     skipped |-> {}, replay |-> FALSE, callNow |-> 0, at |-> 0,
     pre |-> EmptySnapshot, post |-> EmptySnapshot, first |-> EmptySnapshot,
     firstAt |-> 0, ids |-> {}, failed |-> {}]

NoInstr == I("none", 0)

(* The instruction context b of task t is waiting on: b = 0 is the handler *)
(* itself, b > 0 a branch of its Promise.all.                              *)
InstrOf(t, b) ==
    LET prog == Program(t.kind)
        main == IF t.pc \in 1..Len(prog) THEN prog[t.pc] ELSE NoInstr
    IN  IF b = 0 THEN main
        ELSE IF main.op = "awaitAll" /\ t.br[b].pc \in 1..Len(BranchProgram(b))
             THEN BranchProgram(b)[t.br[b].pc]
             ELSE NoInstr

PcOf(t, b) == IF b = 0 THEN t.pc ELSE t.br[b].pc
SnapOf(t, b) == IF b = 0 THEN t.snap ELSE t.br[b].snap

Goto(t, b, pc) ==
    IF b = 0 THEN [t EXCEPT !.pc = pc] ELSE [t EXCEPT !.br[b].pc = pc]

SetSnap(t, b, snap) ==
    IF b = 0 THEN [t EXCEPT !.snap = snap] ELSE [t EXCEPT !.br[b].snap = snap]

(* A test that lets the present instant pass *)
IsPast_Strict(date, time) == date < time

(* date.getTime() <= Date.now() *)
IsPast(date, time) == date <= time

(* Where scheduleNotification's `return null` continues: in               *)
(* restoreNotifications with the next reminder of the loop, or after the   *)
(* loop; elsewhere the caller is done.                                     *)
NullPc(t) ==
    LET prog == Program(t.kind)
        after == {i \in DOMAIN prog :
                     i > t.pc /\ prog[i].op \in {"nextReminder", "loadPrune"}}
    IN  IF t.kind = "fetch"
        THEN CHOOSE i \in after : \A j \in after : i <= j
        ELSE Len(prog) + 1

(* A loop that does not look at the live triggers *)
NeedsRestore_IgnoresLive(reminder, time, existingIds) ==
    /\ reminder.status = "pending"
    /\ ~(DueTime(reminder) <= time)

(* restoreNotifications: the tests of one pass of the loop *)
NeedsRestore(reminder, time, existingIds) ==
    /\ reminder.status = "pending"
    /\ ~(DueTime(reminder) <= time)
    /\ reminder.id \notin existingIds

(* The synchronous code of scheduleNotification and                        *)
(* scheduleRepeatNotifications that runs between two awaits:               *)
(*   if (!this.isInitialized) ...          no await when already set       *)
(*   if (schedule.date.getTime() <= Date.now()) return null                *)
(*   if (repeatTime.getTime() <= Date.now()) continue                      *)
(* and of restoreNotifications' loop, which compares with the `now` it     *)
(* read before the loop (firstAt).                                         *)
RECURSIVE Settle(_, _, _)
Settle(t, init, time) ==
    LET prog == Program(t.kind)
        ins == IF t.pc \in 1..Len(prog) THEN prog[t.pc] ELSE NoInstr
    IN  CASE ins.op = "ensureInit" /\ init ->
                Settle([t EXCEPT !.pc = t.pc + 1], init, time)
          [] ins.op = "checkDate" ->
                IF IsPast(t.T, time)
                THEN Settle([t EXCEPT !.pc = NullPc(t), !.result = "null"],
                            init, time)
                ELSE Settle([t EXCEPT !.pc = t.pc + 1], init, time)
          [] ins.op = "checkRepeat" ->
                IF IsPast(FireTime(t.T, ins.k), time)
                THEN Settle([t EXCEPT !.pc = t.pc + 4,
                                      !.skipped = t.skipped \cup {ins.k}],
                            init, time)
                ELSE Settle([t EXCEPT !.pc = t.pc + 1], init, time)
          [] ins.op = "nextReminder" ->
                IF /\ ins.k <= Len(t.items)
                   /\ NeedsRestore(t.items[ins.k], t.firstAt, t.ids)
                THEN Settle([t EXCEPT !.pc = t.pc + 1,
                                      !.rid = t.items[ins.k].id,
                                      !.T = DueTime(t.items[ins.k]),
                                      !.cnt = SnoozeCountOf(t.items[ins.k])],
                            init, time)
                ELSE Settle([t EXCEPT !.pc = t.pc + 1 + Len(scheduleNotification)],
                            init, time)
          [] OTHER -> t

Running == {i \in TaskIds : tasks[i].kind # "idle"}
FreeSlot == CHOOSE i \in TaskIds : tasks[i].kind = "idle" /\
                \A j \in TaskIds : tasks[j].kind = "idle" => i <= j
CanStart == ops > 0 /\ Cardinality(Running) < par

NewTask(kind, rid, nid, T, cnt, replay) ==
    Settle([IdleTask EXCEPT !.kind = kind, !.pc = 1, !.rid = rid, !.nid = nid,
                            !.T = T, !.cnt = cnt, !.replay = replay,
                            !.callNow = now, !.pre = Snapshot],
           isInitialized, now)

Spawn(t) ==
    /\ CanStart
    /\ tasks' = [tasks EXCEPT ![FreeSlot] = t]
    /\ ops' = ops - 1
    /\ lastDone' = NoneDone
    /\ lastEvent' = NoEvent

(* A step of task self leaves it at t2.  Only the first instruction of a   *)
(* program can find the manager not initialized: the step that starts the  *)
(* task, or EnsureInit, which initializes it.                              *)
Continue(self, t2) ==
    tasks' = [tasks EXCEPT ![self] = Settle(t2, TRUE, now)]

----------------------------------------------------------------------------
(* Steps of a running handler *)

(* const stored = await AsyncStorage.getItem('reminders'); if (stored) ... *)
LoadReminders(self) ==
    LET t == tasks[self] IN
    /\ InstrOf(t, 0).op = "loadReminders"
    /\ Continue(self, [t EXCEPT !.items = reminders.items,
                                !.T = IF t.kind = "list" THEN now ELSE t.T,
                                !.pc = IF reminders.present THEN t.pc + 1
                                                            ELSE t.pc + 2])
    /\ UNCHANGED <<storeVars, listeners,
                   now, isInitialized, reminders, ledger, triggers, displayed,
                   par, ops, ticks, lastEvent, lastDone, acked, hookReminders>>

(* await AsyncStorage.setItem('reminders', JSON.stringify(updated)) *)
StoreStatus(self) ==
    LET t == tasks[self]
        op == InstrOf(t, 0).op
        status == IF op = "storeTaken" THEN "taken" ELSE "missed"
    IN
    /\ op \in {"storeTaken", "storeMissed"}
    /\ reminders' = [present |-> TRUE,
                     items |-> MarkStatus(t.items, t.rid, status)]
    /\ acked' = IF findIndex(t.items, t.rid) # 0 THEN acked \cup {t.rid}
                                                 ELSE acked
    /\ Continue(self, [t EXCEPT !.pc = t.pc + 1, !.items = <<>>])
    /\ UNCHANGED <<storeVars, listeners,
                   now, isInitialized, ledger, triggers, displayed,
                   par, ops, ticks, lastEvent, lastDone, hookReminders>>

(* The list operation writes the aged records back *)
StoreAged(self) ==
    LET t == tasks[self] IN
    /\ InstrOf(t, 0).op = "storeAged"
    /\ reminders' = [present |-> TRUE, items |-> applyStatusRules(t.items, t.T)]
    /\ Continue(self, [t EXCEPT !.pc = t.pc + 1, !.items = <<>>])
    /\ UNCHANGED <<storeVars, listeners,
                   now, isInitialized, ledger, triggers, displayed,
                   par, ops, ticks, lastEvent, lastDone, acked, hookReminders>>

(* handleSnoozeAction: getItem('reminders'), the three early returns, and  *)
(* the new record computed from Date.now()                                 *)
LoadSnooze(self) ==
    LET t == tasks[self]
        reminderIndex == findIndex(reminders.items, t.rid)
        reminder == reminders.items[reminderIndex]
    IN
    /\ InstrOf(t, 0).op = "loadSnooze"
    /\ IF \/ ~reminders.present
          \/ reminderIndex = 0
          \/ SnoozeCountOf(reminder) >= MAX_SNOOZE_COUNT
       THEN Continue(self, [t EXCEPT !.pc = ReturnPc(t.kind)])
       ELSE Continue(self,
                [t EXCEPT !.items = [reminders.items EXCEPT
                                        ![reminderIndex] = SnoozedReminder(reminder, now)],
                          !.T = now + SNOOZE_DURATION_MS,
                          !.cnt = SnoozeCountOf(reminder) + 1,
                          !.pc = t.pc + 1])
    /\ UNCHANGED <<storeVars, listeners,
                   now, isInitialized, reminders, ledger, triggers, displayed,
                   par, ops, ticks, lastEvent, lastDone, acked, hookReminders>>

(* await AsyncStorage.setItem('reminders', JSON.stringify(reminders)) *)
StoreSnoozed(self) ==
    LET t == tasks[self] IN
    /\ InstrOf(t, 0).op = "storeSnoozed"
    /\ reminders' = [present |-> TRUE, items |-> t.items]
    /\ Continue(self, [t EXCEPT !.pc = t.pc + 1, !.items = <<>>])
    /\ UNCHANGED <<storeVars, listeners,
                   now, isInitialized, ledger, triggers, displayed,
                   par, ops, ticks, lastEvent, lastDone, acked, hookReminders>>

(* const stored = await AsyncStorage.getItem(STORAGE_KEY) *)
LedgerLoad(self, b) ==
    LET t == tasks[self] IN
    /\ InstrOf(t, b).op = "ldL"
    /\ Continue(self, Goto(SetSnap(t, b, ledger), b, PcOf(t, b) + 1))
    /\ UNCHANGED <<storeVars, listeners,
                   now, isInitialized, reminders, ledger, triggers, displayed,
                   par, ops, ticks, lastEvent, lastDone, acked, hookReminders>>

(* removeScheduledNotification: setItem(STORAGE_KEY, filtered) *)
LedgerRemove(self, b) ==
    LET t == tasks[self]
        ins == InstrOf(t, b)
    IN
    /\ ins.op = "rmL"
    /\ ledger' = WithoutRow(SnapOf(t, b), RepeatId(t.rid, ins.k))
    /\ Continue(self, Goto(SetSnap(t, b, {}), b, PcOf(t, b) + 1))
    /\ UNCHANGED <<storeVars, listeners,
                   now, isInitialized, reminders, triggers, displayed,
                   par, ops, ticks, lastEvent, lastDone, acked, hookReminders>>

(* saveScheduledNotification: setItem(STORAGE_KEY, filtered + row) *)
LedgerSave(self) ==
    LET t == tasks[self]
        ins == InstrOf(t, 0)
    IN
    /\ ins.op = "svL"
    /\ ledger' = WithRow(t.snap, LedgerRow(RepeatId(t.rid, ins.k), FireTime(t.T, ins.k)))
    /\ Continue(self, [t EXCEPT !.pc = t.pc + 1, !.snap = {}])
    /\ UNCHANGED <<storeVars, listeners,
                   now, isInitialized, reminders, triggers, displayed,
                   par, ops, ticks, lastEvent, lastDone, acked, hookReminders>>

(* cancelNotification: getScheduledNotifications(), find(), if (found) *)
LedgerFind(self) ==
    LET t == tasks[self]
        found == \E n \in ledger : n.reminderId = PrimaryId(t.rid)
    IN
    /\ InstrOf(t, 0).op = "findL"
    /\ Continue(self, [t EXCEPT !.pc = IF found THEN t.pc + 1 ELSE t.pc + 4])
    /\ UNCHANGED <<storeVars, listeners,
                   now, isInitialized, reminders, ledger, triggers, displayed,
                   par, ops, ticks, lastEvent, lastDone, acked, hookReminders>>

(* cleanup: the read, the filter on scheduledTime > now, the length test *)
LoadPrune(self) ==
    LET t == tasks[self]
        future == {n \in ledger : n.scheduledTime > now}
    IN
    /\ InstrOf(t, 0).op = "loadPrune"
    /\ Continue(self, [t EXCEPT !.snap = future,
                                !.pc = IF Cardinality(future) < Cardinality(ledger)
                                       THEN t.pc + 1 ELSE t.pc + 2])
    /\ UNCHANGED <<storeVars, listeners,
                   now, isInitialized, reminders, ledger, triggers, displayed,
                   par, ops, ticks, lastEvent, lastDone, acked, hookReminders>>

(* cleanup: saveAllScheduledNotifications(future) *)
StorePruned(self) ==
    LET t == tasks[self] IN
    /\ InstrOf(t, 0).op = "storePruned"
    /\ ledger' = t.snap
    /\ Continue(self, [t EXCEPT !.pc = t.pc + 1, !.snap = {}])
    /\ UNCHANGED <<storeVars, listeners,
                   now, isInitialized, reminders, triggers, displayed,
                   par, ops, ticks, lastEvent, lastDone, acked, hookReminders>>

(* await notifee.cancelNotification(id).  The branches of a Promise.all    *)
(* issue their cancels in one synchronous pass of map(); the backend       *)
(* applies them in that order.                                             *)
BackendCancel(self, b) ==
    LET t == tasks[self]
        ins == InstrOf(t, b)
    IN
    /\ ins.op = "cancel"
    /\ \A c \in Branches : c < b => t.br[c].pc > 1
    /\ triggers' = CancelTrigger(triggers, RepeatId(t.rid, ins.k))
    /\ displayed' = CancelTrigger(displayed, RepeatId(t.rid, ins.k))
    /\ Continue(self, Goto(t, b, PcOf(t, b) + 1))
    /\ UNCHANGED <<storeVars, listeners, now, isInitialized, reminders, ledger,
                   par, ops, ticks, lastEvent, lastDone, acked, hookReminders>>

(* index.js: await notifee.cancelNotification(notification.id) *)
CancelPressed(self) ==
    LET t == tasks[self] IN
    /\ InstrOf(t, 0).op = "cancelPressed"
    /\ triggers' = CancelTrigger(triggers, t.nid)
    /\ displayed' = CancelTrigger(displayed, t.nid)
    /\ Continue(self, [t EXCEPT !.pc = t.pc + 1])
    /\ UNCHANGED <<storeVars, listeners, now, isInitialized, reminders, ledger,
                   par, ops, ticks, lastEvent, lastDone, acked, hookReminders>>

(* await notifee.createTriggerNotification({id, data}, trigger) *)
BackendCreate(self) ==
    LET t == tasks[self]
        ins == InstrOf(t, 0)
    IN
    /\ ins.op = "create"
    /\ triggers' = CreateTrigger(triggers, RepeatId(t.rid, ins.k),
                                 FireTime(t.T, ins.k), t.rid, t.cnt)
    /\ Continue(self, [t EXCEPT !.pc = t.pc + 1,
                                !.result = IF ins.k = 0 THEN "id" ELSE t.result])
    /\ UNCHANGED <<storeVars, listeners,
                   now, isInitialized, reminders, ledger, displayed,
                   par, ops, ticks, lastEvent, lastDone, acked, hookReminders>>

(* await Promise.all(cancelPromises) *)
AwaitAll(self) ==
    LET t == tasks[self] IN
    /\ InstrOf(t, 0).op = "awaitAll"
    /\ \A b \in Branches : t.br[b].pc > Len(BranchProgram(b))
    /\ Continue(self, [t EXCEPT !.pc = t.pc + 1])
    /\ UNCHANGED <<storeVars, listeners,
                   now, isInitialized, reminders, ledger, triggers, displayed,
                   par, ops, ticks, lastEvent, lastDone, acked, hookReminders>>

(* scheduleNotification: await this.initialize() *)
EnsureInit(self) ==
    LET t == tasks[self] IN
    /\ InstrOf(t, 0).op = "ensureInit"
    /\ isInitialized' = TRUE
    /\ Continue(self, [t EXCEPT !.pc = t.pc + 1])
    /\ listeners' = listeners + 1
    /\ UNCHANGED <<storeVars,
                   now, reminders, ledger, triggers, displayed,
                   par, ops, ticks, lastEvent, lastDone, acked, hookReminders>>

(* const { scheduleNotification } = await import('./NotificationManager'): *)
(* the module has a default export only, so the call throws a TypeError,   *)
(* which the handler's catch logs.                                         *)
MissingExport(self) ==
    LET t == tasks[self] IN
    /\ InstrOf(t, 0).op = "missingExport"
    /\ Continue(self, [t EXCEPT !.pc = ReturnPc(t.kind)])
    /\ UNCHANGED <<storeVars, listeners,
                   now, isInitialized, reminders, ledger, triggers, displayed,
                   par, ops, ticks, lastEvent, lastDone, acked, hookReminders>>

(* saveReminders(filtered): await AsyncStorage.setItem('reminders', ...) *)
SaveFiltered(self) ==
    LET t == tasks[self] IN
    /\ InstrOf(t, 0).op = "saveFiltered"
    /\ reminders' = [present |-> TRUE, items |-> t.items]
    /\ Continue(self, [t EXCEPT !.pc = t.pc + 1, !.items = <<>>])
    /\ UNCHANGED <<storeVars, listeners,
                   now, isInitialized, ledger, triggers, displayed,
                   par, ops, ticks, lastEvent, lastDone, acked, hookReminders>>

(* The rows cancelNotifications selects:                                   *)
(*   scheduled.filter(n => reminderIds.includes(n.reminderId))             *)
(* reminderIds holds reminder ids, which are the ids of primary triggers.  *)
MatchingRows(scheduled, reminderIds) ==
    {n \in scheduled : \E id \in reminderIds : n.reminderId = PrimaryId(id)}

(* cancelNotifications: getScheduledNotifications(), notificationIds,      *)
(* if (notificationIds.length > 0)                                         *)
FindMany(self) ==
    LET t == tasks[self]
        notificationIds == {n.notificationId : n \in MatchingRows(ledger, t.ids)}
    IN
    /\ InstrOf(t, 0).op = "findMany"
    /\ Continue(self, [t EXCEPT !.snap = ledger, !.todo = notificationIds,
                                !.pc = IF notificationIds # {} THEN t.pc + 1
                                                               ELSE t.pc + 3])
    /\ UNCHANGED <<storeVars, listeners,
                   now, isInitialized, reminders, ledger, triggers, displayed,
                   par, ops, ticks, lastEvent, lastDone, acked, hookReminders>>

(* for (const notificationId of notificationIds)                           *)
(*     await notifee.cancelNotification(notificationId)                    *)
(* The Ledger is a set here: the loop takes the ids in any order.          *)
CancelEach(self) ==
    LET t == tasks[self] IN
    /\ InstrOf(t, 0).op = "cancelEach"
    /\ \E notificationId \in t.todo :
          /\ triggers' = CancelTrigger(triggers, notificationId)
          /\ displayed' = CancelTrigger(displayed, notificationId)
          /\ Continue(self, [t EXCEPT !.todo = t.todo \ {notificationId},
                                      !.pc = IF t.todo = {notificationId}
                                             THEN t.pc + 1 ELSE t.pc])
    /\ UNCHANGED <<storeVars, listeners, now, isInitialized, reminders, ledger,
                   par, ops, ticks, lastEvent, lastDone, acked, hookReminders>>

(* const remaining = scheduled.filter(n => !reminderIds.includes(...));    *)
(* await this.saveAllScheduledNotifications(remaining)                     *)
SaveRemaining(self) ==
    LET t == tasks[self] IN
    /\ InstrOf(t, 0).op = "saveRemaining"
    /\ ledger' = t.snap \ MatchingRows(t.snap, t.ids)
    /\ Continue(self, [t EXCEPT !.pc = t.pc + 1, !.snap = {}])
    /\ UNCHANGED <<storeVars, listeners,
                   now, isInitialized, reminders, triggers, displayed,
                   par, ops, ticks, lastEvent, lastDone, acked, hookReminders>>

(* A cancelAll that reaches only the triggers listed in the Ledger *)
AfterCancelAll_Listed(set) ==
    {n \in set : \A row \in ledger : row.notificationId # n.id}

(* What notifee.cancelAllNotifications() leaves of a set of notifications *)
AfterCancelAll(set) == {}

(* await notifee.cancelAllNotifications() *)
BackendCancelAll(self) ==
    LET t == tasks[self] IN
    /\ InstrOf(t, 0).op = "cancelAll"
    /\ triggers' = AfterCancelAll(triggers)
    /\ displayed' = AfterCancelAll(displayed)
    /\ Continue(self, [t EXCEPT !.pc = t.pc + 1])
    /\ UNCHANGED <<storeVars, listeners, now, isInitialized, reminders, ledger,
                   par, ops, ticks, lastEvent, lastDone, acked, hookReminders>>

(* await AsyncStorage.removeItem(STORAGE_KEY): getScheduledNotifications() *)
(* reads a missing key as []                                               *)
RemoveItem(self) ==
    LET t == tasks[self] IN
    /\ InstrOf(t, 0).op = "removeItem"
    /\ ledger' = {}
    /\ Continue(self, [t EXCEPT !.pc = t.pc + 1])
    /\ UNCHANGED <<storeVars, listeners,
                   now, isInitialized, reminders, triggers, displayed,
                   par, ops, ticks, lastEvent, lastDone, acked, hookReminders>>

(* Where the code continues when notifee.cancelNotification rejects.  The  *)
(* primary cancel and the loop of cancelNotifications sit directly in the  *)
(* function's try block: its catch logs and the function returns, past the *)
(* rest of the block.  An escalation cancel has a try of its own inside    *)
(* the loop: its catch is empty and the loop goes on with the next one,    *)
(* past the removal of this one's row.                                     *)
CatchPc(ins, pc) ==
    CASE ins.op = "cancelEach" -> pc + 2
      [] ins.k = 0 -> pc + Len(cancelNotificationWithRepeats)
      [] OTHER -> pc + Len(CancelRepeat(ins.k))

(* await notifee.cancelNotification(id) rejects: a backend error *)
BackendCancelThrows(self) ==
    LET t == tasks[self]
        ins == InstrOf(t, 0)
    IN
    /\ ins.op \in {"cancel", "cancelEach"}
    /\ t.failed = {}
    /\ \E notificationId \in (IF ins.op = "cancel" THEN {RepeatId(t.rid, ins.k)}
                                                    ELSE t.todo) :
          Continue(self, [t EXCEPT !.failed = {notificationId}, !.todo = {},
                                   !.snap = {}, !.pc = CatchPc(ins, t.pc)])
    /\ UNCHANGED <<storeVars, listeners,
                   now, isInitialized, reminders, ledger, triggers, displayed,
                   par, ops, ticks, lastEvent, lastDone, acked, hookReminders>>

(* fetchReminders: getItem('reminders'); if (stored) setReminders(loaded) *)
FetchLoad(self) ==
    LET t == tasks[self] IN
    /\ InstrOf(t, 0).op = "fetchLoad"
    /\ hookReminders' = IF reminders.present THEN reminders.items
                                              ELSE hookReminders
    /\ Continue(self, [t EXCEPT !.items = reminders.items,
                                !.pc = IF reminders.present
                                       THEN t.pc + 1
                                       ELSE Len(Program(t.kind)) + 1])
    /\ UNCHANGED <<storeVars, listeners,
                   now, isInitialized, reminders, ledger, triggers, displayed,
                   par, ops, ticks, lastEvent, lastDone, acked>>

(* new Set(triggerNotifications.map(n => n.notification.data?.reminderId)) *)
ExistingIds(set) == {n.reminderId : n \in set}

(* const triggerNotifications = await notifee.getTriggerNotifications() *)
GetTriggers(self) ==
    LET t == tasks[self] IN
    /\ InstrOf(t, 0).op = "getTriggers"
    /\ Continue(self, [t EXCEPT !.pc = t.pc + 1, !.ids = ExistingIds(triggers),
                                !.first = Snapshot])
    /\ UNCHANGED <<storeVars, listeners,
                   now, isInitialized, reminders, ledger, triggers, displayed,
                   par, ops, ticks, lastEvent, lastDone, acked, hookReminders>>

(* A restore that saves the rows as it read them *)
ValidStored_Unfiltered(stored, time) == stored

(* A filter with the comparison the wrong way round *)
ValidStored_Past(stored, time) == {n \in stored : n.scheduledTime <= time}

(* stored.filter(n => n.scheduledTime > now) *)
ValidStored(stored, time) == {n \in stored : n.scheduledTime > time}

(* const stored = await this.getScheduledNotifications();                  *)
(* const now = Date.now(); const validStored = stored.filter(...)          *)
LoadValid(self) ==
    LET t == tasks[self] IN
    /\ InstrOf(t, 0).op = "loadValid"
    /\ Continue(self, [t EXCEPT !.pc = t.pc + 1, !.firstAt = now,
                                !.snap = ValidStored(ledger, now)])
    /\ UNCHANGED <<storeVars, listeners,
                   now, isInitialized, reminders, ledger, triggers, displayed,
                   par, ops, ticks, lastEvent, lastDone, acked, hookReminders>>

(* await this.saveAllScheduledNotifications(validStored) *)
StoreValid(self) ==
    LET t == tasks[self] IN
    /\ InstrOf(t, 0).op = "storeValid"
    /\ ledger' = t.snap
    /\ Continue(self, [t EXCEPT !.pc = t.pc + 1, !.snap = {}])
    /\ UNCHANGED <<storeVars, listeners,
                   now, isInitialized, reminders, triggers, displayed,
                   par, ops, ticks, lastEvent, lastDone, acked, hookReminders>>

----------------------------------------------------------------------------
(* The handler returns *)

EventKinds == {"bgTake", "bgSkip", "bgSnooze", "fgTake", "fgSkip", "fgSnooze"}

ActionOf(kind) ==
    CASE kind \in {"bgTake", "fgTake"} -> "take"
      [] kind \in {"bgSkip", "fgSkip"} -> "skip"
      [] OTHER -> "snooze"

Return(self) ==
    LET t == tasks[self] IN
    /\ t.kind # "idle"
    /\ t.pc > Len(Program(t.kind))
    /\ lastDone' =
          [kind |-> t.kind, rid |-> t.rid, nid |-> t.nid, T |-> t.T,
           result |-> t.result, skipped |-> t.skipped, replay |-> t.replay,
           callNow |-> t.callNow, at |-> now, pre |-> t.pre, post |-> Snapshot,
           first |-> t.first, firstAt |-> t.firstAt, ids |-> t.ids,
           failed |-> t.failed]
    /\ lastEvent' =
          IF t.kind \in EventKinds /\ ~t.replay
          THEN [action |-> ActionOf(t.kind), rid |-> t.rid, nid |-> t.nid,
                post |-> Snapshot, at |-> now]
          ELSE NoEvent
    /\ tasks' = [tasks EXCEPT ![self] = IdleTask]
    /\ UNCHANGED <<storeVars, listeners,
                   now, isInitialized, reminders, ledger, triggers, displayed,
                   par, ops, ticks, acked, hookReminders>>

----------------------------------------------------------------------------
(* What starts a handler *)

HandlerKind(action) ==
    IF isInitialized
    THEN CASE action = "take" -> "fgTake" [] action = "skip" -> "fgSkip"
           [] OTHER -> "fgSnooze"
    ELSE CASE action = "take" -> "bgTake" [] action = "skip" -> "bgSkip"
           [] OTHER -> "bgSnooze"

(* The user presses an action of a shown notification.  The handlers       *)
(* NotificationManager.setupEventHandlers registered take the event when   *)
(* the manager is initialized; before that (a headless start) the handler  *)
(* index.js registered takes it.                                           *)
Press ==
    \E d \in displayed : \E action \in createNotificationActions(d.snoozeCount) :
        /\ Spawn(NewTask(HandlerKind(action), d.reminderId, d.id, 0, 0, FALSE))
        /\ UNCHANGED <<storeVars, listeners,
                       now, isInitialized, reminders, ledger, triggers,
                       displayed, par, ticks, acked, hookReminders>>

(* The backend delivers the event just handled a second time *)
Redeliver ==
    /\ lastEvent.action # "none"
    /\ Spawn([NewTask(HandlerKind(lastEvent.action), lastEvent.rid,
                      lastEvent.nid, 0, 0, TRUE)
                EXCEPT !.first = lastEvent.post, !.firstAt = lastEvent.at])
    /\ UNCHANGED <<storeVars, listeners,
                   now, isInitialized, reminders, ledger, triggers,
                   displayed, par, ticks, acked, hookReminders>>

StoredIds == {reminders.items[i].id : i \in DOMAIN reminders.items}
Stored(id) == reminders.items[findIndex(reminders.items, id)]

(* NotificationManager.scheduleNotification({reminderId, date, data}) *)
RegisterOf(ids) ==
    \E id \in StoredIds \cap ids : \E date \in {DueTime(Stored(id)), now} :
        /\ Spawn(NewTask("register", id, NoId, date,
                         SnoozeCountOf(Stored(id)), FALSE))
        /\ UNCHANGED <<storeVars, listeners,
                       now, isInitialized, reminders, ledger, triggers,
                       displayed, par, ticks, acked, hookReminders>>

Register == RegisterOf(OpIds)

(* NotificationManager.cancelNotification(reminderId) *)
Cancel ==
    \E id \in OpIds :
        /\ Spawn(NewTask("cancel", id, NoId, 0, 0, FALSE))
        /\ UNCHANGED <<storeVars, listeners,
                       now, isInitialized, reminders, ledger, triggers,
                       displayed, par, ticks, acked, hookReminders>>

(* NotificationManager.cleanup() *)
Cleanup ==
    /\ Spawn(NewTask("cleanup", "none", NoId, 0, 0, FALSE))
    /\ UNCHANGED <<storeVars, listeners,
                   now, isInitialized, reminders, ledger, triggers,
                   displayed, par, ticks, acked, hookReminders>>

(* The list operation with the aging rule *)
ListReminders ==
    /\ Spawn(NewTask("list", "none", NoId, 0, 0, FALSE))
    /\ UNCHANGED <<storeVars, listeners,
                   now, isInitialized, reminders, ledger, triggers,
                   displayed, par, ticks, acked, hookReminders>>

(* useReminders.ts: the screen's operations on the hook's `reminders`      *)
(* state.  The synchronous part of each runs when it is called: the        *)
(* filters over the state and saveReminders' setReminders(items).          *)
HookIds == {hookReminders[i].id : i \in DOMAIN hookReminders}
HookCourses == {hookReminders[i].courseId : i \in DOMAIN hookReminders}

(* reminders.filter(r => r.id !== id) *)
WithoutId(items, id) == SelectSeq(items, LAMBDA r : r.id # id)

(* reminders.filter(r => r.courseId !== courseId) *)
WithoutCourse(items, courseId) ==
    SelectSeq(items, LAMBDA r : r.courseId # courseId)

(* reminders.filter(r => r.courseId === courseId).map(r => String(r.id)) *)
IdsOfCourse(items, courseId) ==
    {items[i].id : i \in {j \in DOMAIN items : items[j].courseId = courseId}}

DeleteReminder ==
    \E id \in HookIds :
        LET filtered == WithoutId(hookReminders, id) IN
        /\ Spawn([NewTask("delete", id, NoId, 0, 0, FALSE)
                    EXCEPT !.items = filtered, !.ids = {id}])
        /\ hookReminders' = filtered
        /\ UNCHANGED <<storeVars, listeners,
                       now, isInitialized, reminders, ledger, triggers,
                       displayed, par, ticks, acked>>

DeleteByCourse ==
    \E courseId \in HookCourses :
        LET filtered == WithoutCourse(hookReminders, courseId) IN
        /\ Spawn([NewTask("deleteByCourse", "none", NoId, 0, 0, FALSE)
                    EXCEPT !.items = filtered,
                           !.ids = IdsOfCourse(hookReminders, courseId)])
        /\ hookReminders' = filtered
        /\ UNCHANGED <<storeVars, listeners,
                       now, isInitialized, reminders, ledger, triggers,
                       displayed, par, ticks, acked>>

(* The reminder is acknowledged or dismissed in the app:                   *)
(* reminders.map(r => (r.id === id ? { ...r, status } : r))                *)
UpdateStatus ==
    \E id \in HookIds : \E status \in {"taken", "missed"} :
        LET updated == MarkStatus(hookReminders, id, status) IN
        /\ Spawn([NewTask("update", id, NoId, 0, 0, FALSE)
                    EXCEPT !.items = updated, !.result = status])
        /\ hookReminders' = updated
        /\ UNCHANGED <<storeVars, listeners,
                       now, isInitialized, reminders, ledger, triggers,
                       displayed, par, ticks, acked>>

(* NotificationManager.cancelAllNotifications() *)
CancelAll ==
    /\ Spawn(NewTask("cancelAll", "none", NoId, 0, 0, FALSE))
    /\ UNCHANGED <<storeVars, listeners,
                   now, isInitialized, reminders, ledger, triggers,
                   displayed, par, ticks, acked, hookReminders>>

(* The app is opened: useReminders' effects call initialize() and          *)
(* fetchReminders(), which sets the hook's state to the stored list.       *)
Initialize ==
    /\ ~isInitialized
    /\ Running = {}
    /\ isInitialized' = TRUE
    /\ hookReminders' = reminders.items
    /\ listeners' = listeners + 1
    /\ UNCHANGED <<storeVars,
                   now, reminders, ledger, triggers, displayed, tasks,
                   par, ops, ticks, lastEvent, lastDone, acked>>

(* The process is killed, at any await: every handler in flight is lost *)
KillApp ==
    /\ isInitialized \/ Running # {}
    /\ isInitialized' = FALSE
    /\ tasks' = [i \in TaskIds |-> IdleTask]
    /\ hookReminders' = <<>>
    /\ listeners' = 0
    /\ UNCHANGED <<storeVars,
                   now, reminders, ledger, triggers, displayed,
                   par, ops, ticks, lastEvent, lastDone, acked>>

(* Time passes; the backend fires the triggers that are due and shows      *)
(* them, and a primary notification is removed timeoutAfter its showing.   *)
(* An event is delivered a second time before any time has passed.         *)
TickDeltas == {10 * MS_PER_MINUTE, 20 * MS_PER_MINUTE}

Shown(n) == [id |-> n.id, reminderId |-> n.reminderId,
             snoozeCount |-> n.snoozeCount, shownAt |-> n.timestamp]

(* A handler observes the clock only through Date.now(): time that passes  *)
(* while it runs matters to it only ahead of such a comparison.            *)
ReadsClock(t) ==
    \E i \in t.pc..Len(Program(t.kind)) :
        \/ Program(t.kind)[i].op \in {"checkDate", "checkRepeat"}
        \/ t.kind = "fetch" /\ Program(t.kind)[i].op \in {"loadValid", "loadPrune"}

Tick ==
    \E d \in TickDeltas :
        LET fired == {n \in triggers : n.timestamp <= now + d}
            kept == {n \in displayed : \A f \in fired : f.id # n.id}
            shown == kept \cup {Shown(n) : n \in fired}
        IN
        /\ ticks < MaxTicks
        /\ \A i \in Running : ReadsClock(tasks[i])
        /\ ticks' = ticks + 1
        /\ now' = now + d
        /\ triggers' = triggers \ fired
        /\ displayed' = {n \in shown :
                            ~(n.id[2] = 0 /\ n.shownAt + TIMEOUT_AFTER_MS <= now + d)}
        /\ lastEvent' = NoEvent
        /\ UNCHANGED <<storeVars, listeners,
                       isInitialized, reminders, ledger, tasks,
                       par, ops, lastDone, acked, hookReminders>>

----------------------------------------------------------------------------
(* Initial states: two reminders.  r1 has just been registered (at         *)
(* creation, or by a postpone handled by the manager): its four triggers   *)
(* are live and in the Ledger.  r2 was created without notifications.      *)

StartTime == 1430 * MS_PER_MINUTE + 30000
FirstDue == 1435 * MS_PER_MINUTE
InitCounts == {0, 2}

InitReminder(id, due, count) ==
    [id |-> id, status |-> "pending",
     date |-> formatISODate(due), time |-> formatTimeFromDate(due),
     snoozeCount |-> IF count = 0 THEN NoValue ELSE count,
     originalDate |-> IF count = 0 THEN NoValue
                      ELSE formatISODate(due - count * SNOOZE_DURATION_MS),
     originalTime |-> IF count = 0 THEN NoValue
                      ELSE formatTimeFromDate(due - count * SNOOZE_DURATION_MS),
     courseId |-> 1]

InitStored(p, n) ==
    /\ now = StartTime
    /\ \E count \in InitCounts :
        LET due == FirstDue IN
        /\ reminders = [present |-> TRUE,
                        items |-> <<InitReminder("r1", due, count),
                                    InitReminder("r2", due + 60 * MS_PER_MINUTE, 0)>>]
        /\ triggers = {[id |-> RepeatId("r1", k), timestamp |-> FireTime(due, k),
                        reminderId |-> "r1", snoozeCount |-> count] :
                            k \in {0} \cup Intervals}
        /\ ledger = {LedgerRow(RepeatId("r1", k), FireTime(due, k)) :
                            k \in {0} \cup Intervals}
    /\ displayed = {}
    /\ tasks = [i \in TaskIds |-> IdleTask]
    /\ par = p
    /\ ops = n
    /\ ticks = 0
    /\ lastEvent = NoEvent
    /\ lastDone = NoneDone
    /\ acked = {}
    /\ StoreUnused

(* The process is not running: useState<Reminder[]>([]) *)
InitWith(p, n) ==
    /\ InitStored(p, n)
    /\ isInitialized = FALSE
    /\ hookReminders = <<>>
    /\ listeners = 0

Init == InitWith(1, MaxOps)

Step ==
    \E self \in TaskIds :
        \/ LoadReminders(self)
        \/ StoreStatus(self)
        \/ StoreAged(self)
        \/ LoadSnooze(self)
        \/ StoreSnoozed(self)
        \/ \E b \in {0} \cup Branches : LedgerLoad(self, b)
        \/ \E b \in {0} \cup Branches : LedgerRemove(self, b)
        \/ LedgerSave(self)
        \/ LedgerFind(self)
        \/ LoadPrune(self)
        \/ StorePruned(self)
        \/ \E b \in {0} \cup Branches : BackendCancel(self, b)
        \/ CancelPressed(self)
        \/ BackendCreate(self)
        \/ AwaitAll(self)
        \/ EnsureInit(self)
        \/ MissingExport(self)
        \/ Return(self)

Next ==
    \/ Step
    \/ Press
    \/ Redeliver
    \/ Register
    \/ Cancel
    \/ Cleanup
    \/ ListReminders
    \/ Initialize
    \/ KillApp
    \/ Tick

Spec == Init /\ [][Next]_vars

----------------------------------------------------------------------------
(* The screen's operations: deleting one reminder or a course, cancelling  *)
(* everything, registering either reminder, with the process killed at any *)
(* await and a backend that may reject one cancel per handler.             *)

HookStep ==
    \E self \in TaskIds :
        \/ SaveFiltered(self)
        \/ FindMany(self)
        \/ CancelEach(self)
        \/ SaveRemaining(self)
        \/ BackendCancelAll(self)
        \/ RemoveItem(self)
        \/ BackendCancelThrows(self)
        \/ LedgerFind(self)
        \/ BackendCancel(self, 0)
        \/ LedgerLoad(self, 0)
        \/ LedgerRemove(self, 0)
        \/ EnsureInit(self)
        \/ BackendCreate(self)
        \/ LedgerSave(self)
        \/ Return(self)

NextHook ==
    \/ HookStep
    \/ DeleteReminder
    \/ DeleteByCourse
    \/ CancelAll
    \/ RegisterOf(Ids)
    \/ Cancel
    \/ Initialize
    \/ KillApp

SpecHook == Init /\ [][NextHook]_vars

----------------------------------------------------------------------------
(* Reconciliation.  The app is opened, or the screen calls fetchReminders  *)
(* again: the stored list is loaded, restoreNotifications registers the    *)
(* pending reminders that no live trigger names, cleanup prunes the        *)
(* Ledger.  Between two runs the user answers prompts, time passes and the *)
(* process is killed at any await.                                         *)

(* useEffect(() => { fetchReminders(); }, [fetchReminders]) on mount, next *)
(* to the effect that calls NotificationManager.initialize()               *)
OpenApp ==
    /\ ~isInitialized
    /\ Running = {}
    /\ isInitialized' = TRUE
    /\ Spawn(NewTask("fetch", "none", NoId, 0, 0, FALSE))
    /\ listeners' = listeners + 1
    /\ UNCHANGED <<storeVars,
                   now, reminders, ledger, triggers, displayed,
                   par, ticks, acked, hookReminders>>

(* fetchReminders() called by a screen while the app is open.  The run is  *)
(* marked when it starts in the very state the run before it ended in, no  *)
(* time having passed since that run began (so no trigger has fired).      *)
FetchReminders ==
    /\ isInitialized
    /\ Spawn(NewTask("fetch", "none", NoId, 0, 0,
                     /\ lastDone.kind = "fetch"
                     /\ lastDone.post = Snapshot
                     /\ lastDone.callNow = now
                     /\ lastDone.at = now))
    /\ UNCHANGED <<storeVars, listeners,
                   now, isInitialized, reminders, ledger, triggers,
                   displayed, par, ticks, acked, hookReminders>>

RestoreStep ==
    \E self \in TaskIds :
        \/ FetchLoad(self)
        \/ GetTriggers(self)
        \/ LoadValid(self)
        \/ StoreValid(self)
        \/ LoadPrune(self)
        \/ StorePruned(self)
        \/ LoadReminders(self)
        \/ StoreStatus(self)
        \/ LoadSnooze(self)
        \/ StoreSnoozed(self)
        \/ \E b \in {0} \cup Branches : LedgerLoad(self, b)
        \/ \E b \in {0} \cup Branches : LedgerRemove(self, b)
        \/ LedgerSave(self)
        \/ LedgerFind(self)
        \/ \E b \in {0} \cup Branches : BackendCancel(self, b)
        \/ CancelPressed(self)
        \/ BackendCreate(self)
        \/ AwaitAll(self)
        \/ MissingExport(self)
        \/ Return(self)

NextRestore ==
    \/ RestoreStep
    \/ Press
    \/ OpenApp
    \/ FetchReminders
    \/ KillApp
    \/ Tick

SpecRestore == Init /\ [][NextRestore]_vars

----------------------------------------------------------------------------
(* Prompts on the screen and the app open.  r1 came due ten minutes after  *)
(* Init: its primary trigger and its first escalation have fired and are   *)
(* displayed, the other two escalations are live.  The app was opened and  *)
(* fetchReminders' cleanup() has pruned the Ledger rows of the two fired   *)
(* triggers.  (Spec reaches this state: Tick, Initialize, Cleanup.)        *)

PromptTime == StartTime + 10 * MS_PER_MINUTE

InitAck ==
    /\ now = PromptTime
    /\ isInitialized = TRUE
    /\ \E count \in InitCounts :
        LET due == FirstDue
            trigger(k) == [id |-> RepeatId("r1", k), timestamp |-> FireTime(due, k),
                           reminderId |-> "r1", snoozeCount |-> count]
        IN
        /\ reminders = [present |-> TRUE,
                        items |-> <<InitReminder("r1", due, count),
                                    InitReminder("r2", due + 60 * MS_PER_MINUTE, 0)>>]
        /\ hookReminders = reminders.items
        /\ displayed = {Shown(trigger(k)) : k \in {0, 5}}
        /\ triggers = {trigger(k) : k \in {10, 15}}
        /\ ledger = {LedgerRow(RepeatId("r1", k), FireTime(due, k)) : k \in {10, 15}}
    /\ tasks = [i \in TaskIds |-> IdleTask]
    /\ par = 1
    /\ ops = MaxOps
    /\ ticks = 0
    /\ lastEvent = NoEvent
    /\ lastDone = NoneDone
    /\ acked = {}
    /\ listeners = (IF isInitialized THEN 1 ELSE 0)
    /\ StoreUnused

AckStep ==
    \E self \in TaskIds :
        \/ LoadReminders(self)
        \/ StoreStatus(self)
        \/ LoadSnooze(self)
        \/ StoreSnoozed(self)
        \/ SaveFiltered(self)
        \/ \E b \in {0} \cup Branches : LedgerLoad(self, b)
        \/ \E b \in {0} \cup Branches : LedgerRemove(self, b)
        \/ LedgerSave(self)
        \/ LedgerFind(self)
        \/ \E b \in {0} \cup Branches : BackendCancel(self, b)
        \/ CancelPressed(self)
        \/ BackendCreate(self)
        \/ AwaitAll(self)
        \/ MissingExport(self)
        \/ Return(self)

NextAck ==
    \/ AckStep
    \/ Press
    \/ UpdateStatus
    \/ Initialize
    \/ KillApp
    \/ Tick

SpecAck == InitAck /\ [][NextAck]_vars

----------------------------------------------------------------------------
(* Properties                                                              *)

ReminderStatus == {"pending", "taken", "missed"}
SnoozeKinds == {"bgSnooze", "fgSnooze"}
TakeKinds == {"bgTake", "fgTake"}
SkipKinds == {"bgSkip", "fgSkip"}

(* The stored record with the given id in a list of records *)
RecordOf(items, id) == items[findIndex(items, id)]
HasRecord(items, id) == findIndex(items, id) > 0

C2_TerminalIsFinal ==
    [][\A i \in DOMAIN reminders.items :
          IsTerminal(reminders.items[i].status)
            => reminders'.items[i].status = reminders.items[i].status]_vars

(* C7: when one snooze event is delivered a second time, the record's      *)
(* snoozeCount, date and time after the replay are those after the first   *)
(* delivery.                                                               *)
C7_ReplayedSnoozeCountsOnce ==
    (/\ lastDone.kind \in SnoozeKinds
     /\ lastDone.replay
     /\ HasRecord(lastDone.post.reminders, lastDone.rid))
    => LET once == RecordOf(lastDone.first.reminders, lastDone.rid)
           twice == RecordOf(lastDone.post.reminders, lastDone.rid)
       IN  /\ twice.snoozeCount = once.snoozeCount
           /\ twice.date = once.date
           /\ twice.time = once.time

(* C6: when one take (or skip) event is delivered a second time, the       *)
(* records, the Ledger and the live triggers after the replay are those    *)
(* after the first delivery.                                               *)
C6_ReplayedTakeChangesNothing ==
    (/\ lastDone.kind \in TakeKinds \cup SkipKinds
     /\ lastDone.replay)
    => lastDone.post = lastDone.first

(* The Ledger rows of one trigger id *)
RowsOf(scheduled, id) == {n \in scheduled : n.reminderId = id}

RegisterDone == lastDone.kind = "register" /\ lastDone.result = "id"

(* After a completed registration at T: one primary row (id, T), and one   *)
(* row (id_repeat_k, T + k) for every offset k still ahead when reached.   *)
RegisteredRows ==
    /\ RowsOf(lastDone.post.ledger, PrimaryId(lastDone.rid))
         = {LedgerRow(PrimaryId(lastDone.rid), lastDone.T)}
    /\ \A k \in Intervals \ lastDone.skipped :
          RowsOf(lastDone.post.ledger, RepeatId(lastDone.rid, k))
            = {LedgerRow(RepeatId(lastDone.rid, k),
                         lastDone.T + k * MS_PER_MINUTE)}

(* C8: after Register(reminder, T) completes, the Ledger holds exactly one *)
(* primary row (id, T), one row (id_repeat_k, T + k) per offset k still in *)
(* the future, and no row for an offset that had elapsed.                  *)
C8_RegisterLedgerRows ==
    RegisterDone
    => /\ RegisteredRows
       /\ \A k \in lastDone.skipped :
             RowsOf(lastDone.post.ledger, RepeatId(lastDone.rid, k)) = {}

(* C8 as amended: for an offset that had elapsed Register writes no row;   *)
(* the rows the Ledger already held for that trigger id are left as found. *)
C8_RegisterLedgerRows_Amended ==
    RegisterDone
    => /\ RegisteredRows
       /\ \A k \in lastDone.skipped :
             RowsOf(lastDone.post.ledger, RepeatId(lastDone.rid, k))
               = RowsOf(lastDone.pre.ledger, RepeatId(lastDone.rid, k))

(* C8 witness: a registration completed with some offsets elapsed and      *)
(* others still ahead.                                                     *)
C8_Witness ==
    /\ RegisterDone
    /\ lastDone.skipped # {}
    /\ lastDone.skipped # Intervals

(* C9: Register with fireTime <= now creates no trigger, leaves the Ledger *)
(* as it was and returns no trigger id.                                    *)
C9_PastRegisterRefused ==
    (lastDone.kind = "register" /\ lastDone.T <= lastDone.callNow)
    => /\ lastDone.result = "null"
       /\ lastDone.post.ledger = lastDone.pre.ledger
       /\ lastDone.post.triggers \subseteq lastDone.pre.triggers

(* C9 witness: a registration at the present instant has returned while    *)
(* the reminder's earlier triggers were live.                              *)
C9_Witness ==
    /\ lastDone.kind = "register"
    /\ lastDone.T = lastDone.callNow
    /\ lastDone.pre.triggers # {}

(* C10: after Cancel(id) completes, no Ledger row and no live trigger has  *)
(* the trigger id id or id_repeat_k for an escalation offset k.            *)
C10_CancelLeavesNothing ==
    lastDone.kind = "cancel"
    => \A id \in TriggerIdsOf(lastDone.rid) :
          /\ RowsOf(lastDone.post.ledger, id) = {}
          /\ \A n \in lastDone.post.triggers : n.id # id

(* C5: a snooze event for a record whose snoozeCount is already            *)
(* MAX_SNOOZE_COUNT or more changes nothing: the records, the Ledger and   *)
(* the live triggers are after the handler what they were before it.       *)
C5_SnoozeAtLimitIsNoOp ==
    (/\ lastDone.kind \in SnoozeKinds
     /\ lastDone.at = lastDone.callNow
     /\ HasRecord(lastDone.pre.reminders, lastDone.rid)
     /\ SnoozeCountOf(RecordOf(lastDone.pre.reminders, lastDone.rid))
          >= MAX_SNOOZE_COUNT)
    => lastDone.post = lastDone.pre

----------------------------------------------------------------------------
(* Two events in flight: the process is not running, so each event starts  *)
(* the headless handler of index.js, and the backend starts the second     *)
(* while the first is still awaiting its storage calls.                    *)

InitConc == InitWith(2, MaxOps)

(* A handler reads and writes 'reminders' in its first two calls only and  *)
(* the Ledger and the backend in the calls after them.  The interleavings  *)
(* explored are those of the calls on 'reminders'; the calls after them    *)
(* commute with these and are run one handler after the other, and one    *)
(* branch of a Promise.all after the other.                                *)
AtRecords(t) ==
    InstrOf(t, 0).op \in {"loadReminders", "storeTaken", "storeMissed",
                          "loadSnooze", "storeSnoozed"}

InTurn(self) ==
    \/ AtRecords(tasks[self])
    \/ \A other \in Running \ {self} :
          ~AtRecords(tasks[other]) /\ self < other

InOrder(self, b) ==
    \A c \in Branches :
        c < b => tasks[self].br[c].pc > Len(BranchProgram(c))

HeadlessStep ==
    \E self \in TaskIds :
        \/ InTurn(self) /\ LoadReminders(self)
        \/ InTurn(self) /\ StoreStatus(self)
        \/ InTurn(self) /\ LoadSnooze(self)
        \/ InTurn(self) /\ StoreSnoozed(self)
        \/ \E b \in {0} \cup Branches :
              InTurn(self) /\ InOrder(self, b) /\ LedgerLoad(self, b)
        \/ \E b \in {0} \cup Branches :
              InTurn(self) /\ InOrder(self, b) /\ LedgerRemove(self, b)
        \/ \E b \in {0} \cup Branches :
              InTurn(self) /\ InOrder(self, b) /\ BackendCancel(self, b)
        \/ InTurn(self) /\ CancelPressed(self)
        \/ InTurn(self) /\ AwaitAll(self)
        \/ InTurn(self) /\ MissingExport(self)
        \/ InTurn(self) /\ Return(self)

NextConc ==
    \/ HeadlessStep
    \/ Press
    \/ Tick

SpecConc == InitConc /\ [][NextConc]_vars

(* C3: when two handlers' reads and writes of 'reminders' interleave, a    *)
(* record whose take or skip has been written is not put back to pending.  *)
C3_NoLostStatusUpdate ==
    \A id \in acked :
        HasRecord(reminders.items, id)
            => RecordOf(reminders.items, id).status # "pending"

(* C4: for every interleaving of snooze, take and skip events the          *)
(* snoozeCount of a record never decreases and never exceeds               *)
(* MAX_SNOOZE_COUNT.                                                       *)
C4_SnoozeCountMonotone ==
    [][\A i \in DOMAIN reminders.items :
          /\ SnoozeCountOf(reminders'.items[i])
                >= SnoozeCountOf(reminders.items[i])
          /\ SnoozeCountOf(reminders'.items[i]) <= MAX_SNOOZE_COUNT]_vars

----------------------------------------------------------------------------
(* Properties of the screen's operations *)

(* What is left in the Ledger and in the backend for a set of reminders *)
RowsLeft(snapshot, reminderIds) ==
    {n \in snapshot.ledger :
        \E id \in reminderIds : n.reminderId \in TriggerIdsOf(id)
                                  \/ n.notificationId \in TriggerIdsOf(id)}

TriggersLeft(snapshot, reminderIds) ==
    {n \in snapshot.triggers : \E id \in reminderIds : n.id \in TriggerIdsOf(id)}

(* C11: after DeleteByCourse(courseId) has completed without a backend     *)
(* error, no Ledger row and no live trigger is left for any reminder of    *)
(* the course, neither the primary nor an escalation `{id}_repeat_{k}`.    *)
C11_DeleteByCourseLeavesNothing ==
    (lastDone.kind = "deleteByCourse" /\ lastDone.failed = {})
        => /\ RowsLeft(lastDone.post, lastDone.ids) = {}
           /\ TriggersLeft(lastDone.post, lastDone.ids) = {}

(* C12: when the backend rejects the cancel of one id's trigger during     *)
(* CancelMany, every other trigger CancelMany selected is still cancelled  *)
(* in the backend and its row removed from the Ledger.                     *)
C12_CancelManyNoPartialFailure ==
    (lastDone.kind = "deleteByCourse" /\ lastDone.failed # {})
        => \A n \in MatchingRows(lastDone.pre.ledger, lastDone.ids) :
              n.notificationId \notin lastDone.failed
                  => /\ n \notin lastDone.post.ledger
                     /\ \A g \in lastDone.post.triggers : g.id # n.notificationId

(* C13: when the backend rejects the cancel of one trigger of a reminder   *)
(* during Cancel(id), every other trigger of the reminder that Cancel      *)
(* addresses (the primary found in the Ledger, every escalation) is still  *)
(* cancelled in the backend and its row removed from the Ledger.           *)
C13_CancelNoPartialFailure ==
    (lastDone.kind \in {"cancel", "delete"} /\ lastDone.failed # {})
        => \A nid \in TriggerIdsOf(lastDone.rid) \ lastDone.failed :
              (nid # PrimaryId(lastDone.rid) \/ RowsOf(lastDone.pre.ledger, nid) # {})
                  => /\ RowsOf(lastDone.post.ledger, nid) = {}
                     /\ \A g \in lastDone.post.triggers : g.id # nid

C15_DeleteLeavesNothing ==
    (lastDone.kind = "delete" /\ lastDone.failed = {})
        => /\ ~HasRecord(lastDone.post.reminders, lastDone.rid)
           /\ RowsLeft(lastDone.post, {lastDone.rid}) = {}
           /\ TriggersLeft(lastDone.post, {lastDone.rid}) = {}

----------------------------------------------------------------------------
(* Properties of the event handlers, continued *)

(* C16: after an acknowledge or dismiss event has been handled, no live    *)
(* trigger of that reminder is left in the backend, neither the primary    *)
(* nor an escalation.                                                      *)
C16_AckLeavesNoTrigger ==
    lastDone.kind \in TakeKinds \cup SkipKinds
        => TriggersLeft(lastDone.post, {lastDone.rid}) = {}

(* C17: when an acknowledge or dismiss handler returns, the Ledger holds   *)
(* no row for the reminder's primary trigger or for any of its escalation  *)
(* triggers, however the handler's three parallel escalation               *)
(* cancellations interleave.                                               *)
C17_AckLeavesNoRow ==
    lastDone.kind \in TakeKinds \cup SkipKinds
        => RowsLeft(lastDone.post, {lastDone.rid}) = {}

(* A completed postpone of a stored reminder below the limit: the record   *)
(* before and after it, and the time t the handler read from Date.now().   *)
PostponeDone ==
    /\ lastDone.kind \in SnoozeKinds
    /\ HasRecord(lastDone.pre.reminders, lastDone.rid)
    /\ SnoozeCountOf(RecordOf(lastDone.pre.reminders, lastDone.rid)) < MAX_SNOOZE_COUNT

PostponeTime == lastDone.T - SNOOZE_DURATION_MS

(* Everything a postpone at count n sets except the new due moment:        *)
(* snoozeCount n + 1, the original fields copied if and only if n = 0,     *)
(* status, id, course and every other record as before.                    *)
PostponeKeeps ==
    LET before == RecordOf(lastDone.pre.reminders, lastDone.rid)
        after == RecordOf(lastDone.post.reminders, lastDone.rid)
        n == SnoozeCountOf(before)
    IN  /\ HasRecord(lastDone.post.reminders, lastDone.rid)
        /\ after.snoozeCount = n + 1
        /\ n = 0 => /\ after.originalDate = before.date
                    /\ after.originalTime = before.time
        /\ n > 0 => /\ after.originalDate = before.originalDate
                    /\ after.originalTime = before.originalTime
        /\ after.status = before.status
        /\ after.id = before.id
        /\ after.courseId = before.courseId
        /\ Len(lastDone.post.reminders) = Len(lastDone.pre.reminders)
        /\ \A i \in DOMAIN lastDone.pre.reminders :
              lastDone.pre.reminders[i].id # lastDone.rid
                  => lastDone.post.reminders[i] = lastDone.pre.reminders[i]

(* C18 as stated: a postpone handled at time t below the limit sets the    *)
(* record's due date/time to t + 15 minutes, snoozeCount to n + 1, copies  *)
(* the original fields iff n = 0, and changes nothing else.                *)
C18_PostponeSetsDue ==
    PostponeDone
        => /\ PostponeKeeps
           /\ DueTime(RecordOf(lastDone.post.reminders, lastDone.rid))
                 = PostponeTime + SNOOZE_DURATION_MS

(* C18 amended: the new due date/time is t + 15 minutes cut to the whole   *)
(* minute, the precision of the record's HH:mm time.                       *)
C18_PostponeSetsDue_Amended ==
    PostponeDone
        => /\ PostponeKeeps
           /\ DueTime(RecordOf(lastDone.post.reminders, lastDone.rid))
                 = (PostponeTime + SNOOZE_DURATION_MS)
                       - ((PostponeTime + SNOOZE_DURATION_MS) % MS_PER_MINUTE)

(* A first postpone (n = 0) has been handled at a time that is not a whole *)
(* minute, and it crossed midnight.                                        *)
C18_Witness ==
    /\ PostponeDone
    /\ SnoozeCountOf(RecordOf(lastDone.pre.reminders, lastDone.rid)) = 0
    /\ PostponeTime % MS_PER_MINUTE # 0
    /\ RecordOf(lastDone.post.reminders, lastDone.rid).snoozeCount = 1
    /\ RecordOf(lastDone.post.reminders, lastDone.rid).date
          # RecordOf(lastDone.pre.reminders, lastDone.rid).date

(* The original fields of a record are populated *)
HasOriginal(r) == r.originalDate # NoValue /\ r.originalTime # NoValue

(* Every stored record with snoozeCount > 0 has its original fields *)
OriginalPopulated(items) ==
    \A i \in DOMAIN items : SnoozeCountOf(items[i]) > 0 => HasOriginal(items[i])

(* C19: in every reachable state a record with snoozeCount > 0 has         *)
(* originalDate and originalTime populated, and once populated the two     *)
(* fields of a record never change, under any sequence or interleaving of  *)
(* postpone, acknowledge, dismiss and aging.                               *)
C19_OriginalKept ==
    /\ OriginalPopulated(reminders.items)
    /\ [][/\ OriginalPopulated(reminders'.items)
          /\ \A i \in DOMAIN reminders.items :
                (HasOriginal(reminders.items[i]) /\ i \in DOMAIN reminders'.items
                    /\ reminders'.items[i].id = reminders.items[i].id)
                    => /\ reminders'.items[i].originalDate
                            = reminders.items[i].originalDate
                       /\ reminders'.items[i].originalTime
                            = reminders.items[i].originalTime]_vars

(* C20: after the background event handler has fully handled a postpone    *)
(* of a reminder below the limit (handleSnoozeAction, then the cancel of   *)
(* the pressed notification), a live primary trigger with the reminder's   *)
(* id and fire time = handling time + 15 minutes exists, with a matching   *)
(* Ledger row.                                                             *)
C20_BackgroundPostponeRegisters ==
    (lastDone.kind = "bgSnooze" /\ PostponeDone)
        => \E g \in lastDone.post.triggers :
              /\ g.id = PrimaryId(lastDone.rid)
              /\ g.timestamp = PostponeTime + SNOOZE_DURATION_MS
              /\ \E n \in lastDone.post.ledger :
                    /\ n.notificationId = g.id
                    /\ n.scheduledTime = g.timestamp

----------------------------------------------------------------------------
(* Properties of postpone's cancel-then-register and of crashes *)

(* A postpone handler stands at the point where it issues Register: the    *)
(* manager's at createTriggerNotification for the primary trigger, the     *)
(* headless one at its import of scheduleNotification.                     *)
AtRegister(t) ==
    \/ t.kind = "fgSnooze" /\ InstrOf(t, 0) = I("create", 0)
    \/ t.kind = "bgSnooze" /\ InstrOf(t, 0).op = "missingExport"

(* C21: during a postpone the reminder's old primary and escalation        *)
(* triggers are gone from the backend and from the Ledger before Register  *)
(* for the postponed time is issued, and after the postpone has completed  *)
(* every live trigger and Ledger row of the reminder has its postponed     *)
(* fire time.                                                              *)
C21_CancelBeforeRegister ==
    /\ \A i \in Running :
          AtRegister(tasks[i])
              => /\ \A g \in triggers : g.id \notin TriggerIdsOf(tasks[i].rid)
                 /\ \A n \in ledger : n.reminderId \notin TriggerIdsOf(tasks[i].rid)
    /\ PostponeDone
          => /\ \A g \in lastDone.post.triggers :
                    g.id \in TriggerIdsOf(lastDone.rid)
                        => g.timestamp = FireTime(lastDone.T, g.id[2])
             /\ \A n \in lastDone.post.ledger :
                    n.reminderId \in TriggerIdsOf(lastDone.rid)
                        => n.scheduledTime = FireTime(lastDone.T, n.reminderId[2])

(* What a running event handler has changed so far: a Ledger other than    *)
(* the one it found, a trigger it found live that is gone before its fire  *)
(* time, or a trigger that was not there.                                  *)
TouchedEngine(t) ==
    \/ ledger # t.pre.ledger
    \/ \E g \in t.pre.triggers : g \notin triggers /\ g.timestamp > now
    \/ \E g \in triggers : g \notin t.pre.triggers

(* The record change of the handler's action is in storage *)
RecordStored(t) ==
    LET before == RecordOf(t.pre.reminders, t.rid)
        stored == RecordOf(reminders.items, t.rid)
    IN  /\ HasRecord(reminders.items, t.rid)
        /\ CASE t.kind \in TakeKinds -> stored.status = "taken"
             [] t.kind \in SkipKinds -> stored.status = "missed"
             [] OTHER -> SnoozeCountOf(stored) = SnoozeCountOf(before) + 1

(* The handler has a record change to make: the record exists and, for a   *)
(* postpone, is below the limit.                                           *)
HasDecision(t) ==
    /\ t.kind \in EventKinds
    /\ HasRecord(t.pre.reminders, t.rid)
    /\ t.kind \in SnoozeKinds
          => SnoozeCountOf(RecordOf(t.pre.reminders, t.rid)) < MAX_SNOOZE_COUNT

(* C22: in acknowledge, dismiss and postpone the updated record is written *)
(* before any trigger is cancelled or registered and before any Ledger     *)
(* write of the action: in every state in which the process can be killed  *)
(* inside the handler, a visible Ledger or backend change of the action    *)
(* implies that the record's change is stored.                             *)
C22_RecordBeforeEngine ==
    \A i \in Running :
        (HasDecision(tasks[i]) /\ TouchedEngine(tasks[i]))
            => RecordStored(tasks[i])

(* A handler that has stored its record change and removed a Ledger row    *)
(* is still running: the process can be killed here.                       *)
C22_Witness ==
    \E i \in Running :
        /\ HasDecision(tasks[i])
        /\ ledger # tasks[i].pre.ledger
        /\ RecordStored(tasks[i])
        /\ RecordOf(tasks[i].pre.reminders, tasks[i].rid)
              # RecordOf(reminders.items, tasks[i].rid)
        /\ InstrOf(tasks[i], 0).op # "none"

----------------------------------------------------------------------------
(* Properties of reconciliation                                            *)

FetchDone == lastDone.kind = "fetch"

(* The reminders whose stored status is taken or missed *)
TerminalIds(items) ==
    {items[i].id : i \in {j \in DOMAIN items : IsTerminal(items[j].status)}}

(* C23: a reconciliation that completes repairs the drift a kill leaves    *)
(* between an acknowledge's or dismiss's stored status and its triggers:   *)
(* afterwards no live trigger and no Ledger row references a reminder      *)
(* whose status is taken or missed.                                        *)
C23_RestoreRepairsDrift ==
    FetchDone
        => \A id \in TerminalIds(lastDone.post.reminders) :
              /\ TriggersLeft(lastDone.post, {id}) = {}
              /\ RowsLeft(lastDone.post, {id}) = {}

----------------------------------------------------------------------------
(* The aging rule on its own: lists of two records in every status, and    *)
(* instants on both sides of the end of the grace window of r1 and of r2.  *)

GraceEnd == FirstDue + 15 * MS_PER_MINUTE

AgingTimes ==
    {FirstDue, GraceEnd - 1, GraceEnd, GraceEnd + 1, GraceEnd + MS_PER_MINUTE}

InitAging ==
    /\ now \in AgingTimes
    /\ \E s1, s2 \in ReminderStatus : \E count \in InitCounts :
        \E due2 \in {FirstDue, FirstDue + MS_PER_MINUTE} :
            reminders =
                [present |-> TRUE,
                 items |-> <<[InitReminder("r1", FirstDue, count) EXCEPT !.status = s1],
                             [InitReminder("r2", due2, 0) EXCEPT !.status = s2]>>]
    /\ hookReminders = reminders.items
    /\ isInitialized = TRUE
    /\ triggers = {}
    /\ ledger = {}
    /\ displayed = {}
    /\ tasks = [i \in TaskIds |-> IdleTask]
    /\ par = 1
    /\ ops = MaxOps
    /\ ticks = 0
    /\ lastEvent = NoEvent
    /\ lastDone = NoneDone
    /\ acked = {}
    /\ listeners = (IF isInitialized THEN 1 ELSE 0)
    /\ StoreUnused

AgingStep ==
    \E self \in TaskIds :
        \/ LoadReminders(self)
        \/ StoreAged(self)
        \/ Return(self)

NextAging == AgingStep \/ ListReminders \/ Tick

SpecAging == InitAging /\ [][NextAging]_vars

ListDone == lastDone.kind = "list"

(* The record an aging pass at time t must leave for record r *)
Aged(r, t) ==
    IF r.status = "pending" /\ t >= DueTime(r) + 15 * MS_PER_MINUTE
    THEN [r EXCEPT !.status = "missed"]
    ELSE r

(* C24: an aging pass changes a record if and only if it is pending and    *)
(* now >= its due time + 15 minutes, and then its status becomes missed;   *)
(* taken and missed records and pending records inside the grace window    *)
(* keep their status, and no field other than status changes.              *)
C24_AgingRule ==
    /\ \A t \in AgingTimes :
          /\ Len(applyStatusRules(reminders.items, t)) = Len(reminders.items)
          /\ \A i \in DOMAIN reminders.items :
                applyStatusRules(reminders.items, t)[i] = Aged(reminders.items[i], t)
    /\ ListDone
          => /\ Len(lastDone.post.reminders) = Len(lastDone.pre.reminders)
             /\ \A i \in DOMAIN lastDone.pre.reminders :
                   lastDone.post.reminders[i]
                       = Aged(lastDone.pre.reminders[i], lastDone.T)

(* An aging pass at the very end of the grace window has turned a pending  *)
(* record into missed and has left a taken one and a pending one alone.    *)
C24_Witness ==
    /\ ListDone
    /\ \E i \in DOMAIN lastDone.pre.reminders :
          /\ lastDone.pre.reminders[i].status = "pending"
          /\ lastDone.T = DueTime(lastDone.pre.reminders[i]) + 15 * MS_PER_MINUTE
          /\ lastDone.post.reminders[i].status = "missed"
    /\ \E i \in DOMAIN lastDone.pre.reminders :
          /\ lastDone.pre.reminders[i].status \in {"taken", "pending"}
          /\ lastDone.post.reminders[i] = lastDone.pre.reminders[i]

----------------------------------------------------------------------------
(* Aging as time goes on, with the app open.  Time advances for as long as *)
(* a pending record has not reached the end of its grace window, a due     *)
(* trigger is shown or its delivery is lost, MaxOps prompts are answered   *)
(* and list operations run any number of times.                            *)

StillWaiting ==
    \E i \in DOMAIN reminders.items :
        /\ reminders.items[i].status = "pending"
        /\ now < DueTime(reminders.items[i]) + REMINDER_TIMEOUT_MS

SpawnLive(t) ==
    /\ Cardinality(Running) < par
    /\ tasks' = [tasks EXCEPT ![FreeSlot] = t]
    /\ lastDone' = NoneDone
    /\ lastEvent' = NoEvent

(* Time advances twenty minutes at a time: past a due time and its first    *)
(* escalation, or past the grace window                                    *)
AdvanceDeltas == {SNOOZE_DURATION_MS + 5 * MS_PER_MINUTE}

Advance ==
    \E d \in AdvanceDeltas : \E delivered \in BOOLEAN :
        LET fired == {n \in triggers : n.timestamp <= now + d}
            kept == {n \in displayed : \A f \in fired : f.id # n.id}
            shown == IF delivered THEN kept \cup {Shown(n) : n \in fired}
                                  ELSE displayed
        IN
        /\ StillWaiting
        /\ \A i \in Running : ReadsClock(tasks[i])
        /\ now' = now + d
        /\ triggers' = triggers \ fired
        /\ displayed' = {n \in shown :
                            ~(n.id[2] = 0 /\ n.shownAt + TIMEOUT_AFTER_MS <= now + d)}
        /\ lastEvent' = NoEvent
        /\ UNCHANGED <<storeVars, listeners,
                       isInitialized, reminders, ledger, tasks,
                       par, ops, ticks, lastDone, acked, hookReminders>>

ListLive ==
    /\ SpawnLive(NewTask("list", "none", NoId, 0, 0, FALSE))
    /\ UNCHANGED <<storeVars, listeners,
                   now, isInitialized, reminders, ledger, triggers,
                   displayed, par, ops, ticks, acked, hookReminders>>

InitLive ==
    /\ InitStored(1, MaxOps)
    /\ isInitialized = TRUE
    /\ hookReminders = reminders.items
    /\ listeners = 1

LiveStep ==
    \E self \in TaskIds :
        \/ LoadReminders(self)
        \/ StoreStatus(self)
        \/ StoreAged(self)
        \/ LoadSnooze(self)
        \/ StoreSnoozed(self)
        \/ LedgerLoad(self, 0)
        \/ LedgerRemove(self, 0)
        \/ LedgerSave(self)
        \/ LedgerFind(self)
        \/ BackendCancel(self, 0)
        \/ BackendCreate(self)
        \/ Return(self)

NextLive == LiveStep \/ Press \/ ListLive \/ Advance

(* Time keeps advancing, list operations keep occurring, and a handler     *)
(* that has been started runs to its end.  Time and list operations are    *)
(* held back only while a handler runs, so their fairness is strong.       *)
SpecLive ==
    /\ InitLive
    /\ [][NextLive]_vars
    /\ SF_vars(Advance)
    /\ WF_vars(LiveStep)
    /\ SF_vars(ListLive)

AllTerminal ==
    \A i \in DOMAIN reminders.items : IsTerminal(reminders.items[i].status)

RestoreEnded(t) == t.kind = "fetch" /\ InstrOf(t, 0).op = "loadPrune"

(* No row that was there with a fire time at or before `time` is left *)
PastRowsGone(before, after, time) ==
    \A n \in before.ledger : n.scheduledTime <= time => n \notin after.ledger

(* No trigger has been registered at or before `time` *)
NoPastTrigger(before, after, time) ==
    \A g \in after.triggers \ before.triggers : g.timestamp > time

(* The row of the same trigger id describes a trigger registered since *)
Refreshed(n, before, after) ==
    \E m \in after.ledger : \E g \in after.triggers \ before.triggers :
        /\ m.reminderId = n.reminderId
        /\ g.id = m.reminderId
        /\ g.timestamp = m.scheduledTime

(* C26 as stated: when restoreNotifications has returned, the Ledger holds *)
(* no row that was there with a fire time at or before its `now`, every    *)
(* row that was there with a later fire time is still there, and no        *)
(* trigger has been registered at or before `now`.                         *)
C26_PrunesPastKeepsFuture ==
    \A i \in Running :
        RestoreEnded(tasks[i])
            => /\ PastRowsGone(tasks[i].pre, Snapshot, tasks[i].firstAt)
               /\ NoPastTrigger(tasks[i].pre, Snapshot, tasks[i].firstAt)
               /\ \A n \in tasks[i].pre.ledger :
                     n.scheduledTime > tasks[i].firstAt => n \in ledger

(* C26, amended: a row with a later fire time is still there or has been   *)
(* replaced by the row of a trigger that reconciliation registered for the *)
(* same id; after cleanup, this holds of the rows later than the instant   *)
(* fetchReminders returns.                                                 *)
C26_PrunesPastKeepsFuture_Amended ==
    /\ \A i \in Running :
          RestoreEnded(tasks[i])
              => /\ PastRowsGone(tasks[i].pre, Snapshot, tasks[i].firstAt)
                 /\ NoPastTrigger(tasks[i].pre, Snapshot, tasks[i].firstAt)
                 /\ \A n \in tasks[i].pre.ledger :
                       n.scheduledTime > tasks[i].firstAt
                           => \/ n \in ledger
                              \/ Refreshed(n, tasks[i].pre, Snapshot)
    /\ FetchDone
          => /\ PastRowsGone(lastDone.pre, lastDone.post, lastDone.firstAt)
             /\ NoPastTrigger(lastDone.pre, lastDone.post, lastDone.firstAt)
             /\ \A n \in lastDone.pre.ledger :
                   n.scheduledTime > lastDone.at
                       => \/ n \in lastDone.post.ledger
                          \/ Refreshed(n, lastDone.pre, lastDone.post)

(* A reconciliation has replaced a row with a later fire time by the row   *)
(* of a trigger it registered.                                             *)
C26_Witness ==
    /\ FetchDone
    /\ \E n \in lastDone.pre.ledger :
          /\ n.scheduledTime > lastDone.at
          /\ n \notin lastDone.post.ledger
          /\ Refreshed(n, lastDone.pre, lastDone.post)

(* Record r is pending, due after `time` and named by no trigger of `set` *)
Unregistered(r, time, set) ==
    /\ r.status = "pending"
    /\ DueTime(r) > time
    /\ \A g \in set : g.reminderId # r.id

(* C27: after reconciliation every reminder that is pending, due in the    *)
(* future and referenced by no live trigger beforehand has a freshly       *)
(* registered primary trigger and a Ledger row at its due time, also when  *)
(* a stale past row existed for it; for every other reminder               *)
(* reconciliation registers nothing.                                       *)
C27_RestoreRegistersMissing ==
    FetchDone =>
        \A i \in DOMAIN lastDone.pre.reminders :
            LET r == lastDone.pre.reminders[i]
                id == r.id
            IN  IF Unregistered(r, lastDone.firstAt, lastDone.first.triggers)
                THEN DueTime(r) > lastDone.at
                        => /\ \E g \in lastDone.post.triggers :
                                 /\ g.id = PrimaryId(id)
                                 /\ g.timestamp = DueTime(r)
                                 /\ g \notin lastDone.first.triggers
                           /\ LedgerRow(PrimaryId(id), DueTime(r)) \in lastDone.post.ledger
                ELSE /\ TriggersLeft(lastDone.post, {id})
                            \subseteq TriggersLeft(lastDone.first, {id})
                     /\ RowsLeft(lastDone.post, {id})
                            \subseteq RowsLeft(lastDone.first, {id})

(* A reconciliation has registered a pending reminder that had a past row  *)
(* and no trigger.                                                         *)
C27_Witness ==
    /\ FetchDone
    /\ \E i \in DOMAIN lastDone.pre.reminders :
          LET r == lastDone.pre.reminders[i] IN
          /\ Unregistered(r, lastDone.firstAt, lastDone.first.triggers)
          /\ \E n \in lastDone.pre.ledger :
                n.reminderId = PrimaryId(r.id) /\ n.scheduledTime <= lastDone.firstAt
          /\ LedgerRow(PrimaryId(r.id), DueTime(r)) \in lastDone.post.ledger

(* A reconciliation that started in the state the one before it ended in,  *)
(* with no time passing while either of the two ran                        *)
SecondRunDone == FetchDone /\ lastDone.replay /\ lastDone.at = lastDone.callNow

(* C28: reconciliation is idempotent: run twice in a row, with no mutation *)
(* and no trigger firing in between, it leaves the Ledger and the live     *)
(* triggers that one run leaves.                                           *)
C28_RestoreIdempotent ==
    SecondRunDone
        => /\ lastDone.post.ledger = lastDone.pre.ledger
           /\ lastDone.post.triggers = lastDone.pre.triggers

(* The second of two reconciliations has ended, the first having           *)
(* registered r2 and left its rows.                                        *)
C28_Witness ==
    /\ SecondRunDone
    /\ \E n \in lastDone.post.ledger : n.reminderId = PrimaryId("r2")
    /\ \E g \in lastDone.post.triggers : g.id = PrimaryId("r2")

----------------------------------------------------------------------------
(* Reconciliation with the app in use: while fetchReminders runs, the user *)
(* answers a prompt (the manager's handlers take the event) or deletes a   *)
(* reminder on the screen.  Nothing in fetchReminders or in                *)
(* restoreNotifications holds the other handlers back, so their awaited    *)
(* calls interleave.  At the start the process is not running, r1 came due *)
(* ten minutes after Init: its primary prompt and its first escalation     *)
(* prompt are displayed, and their rows are still in the Ledger.           *)

InitBarrier ==
    /\ now = PromptTime
    /\ isInitialized = FALSE
    /\ hookReminders = <<>>
    /\ \E count \in InitCounts :
        LET trigger(k) == [id |-> RepeatId("r1", k),
                           timestamp |-> FireTime(FirstDue, k),
                           reminderId |-> "r1", snoozeCount |-> count]
        IN
        /\ reminders = [present |-> TRUE,
                        items |-> <<InitReminder("r1", FirstDue, count),
                                    InitReminder("r2", FirstDue + 60 * MS_PER_MINUTE, 0)>>]
        /\ displayed = {Shown(trigger(k)) : k \in {0, 5}}
        /\ triggers = {trigger(k) : k \in {10, 15}}
        /\ ledger = {LedgerRow(RepeatId("r1", k), FireTime(FirstDue, k)) :
                            k \in {0} \cup Intervals}
    /\ tasks = [i \in TaskIds |-> IdleTask]
    /\ par = Cardinality(TaskIds)
    /\ ops = MaxOps
    /\ ticks = 0
    /\ lastEvent = NoEvent
    /\ lastDone = NoneDone
    /\ acked = {}
    /\ listeners = (IF isInitialized THEN 1 ELSE 0)
    /\ StoreUnused

(* The interleavings explored: fetchReminders is interrupted at any of its *)
(* awaits by a handler, which runs to its end before fetchReminders goes   *)
(* on.                                                                     *)
Uninterrupted(self) == tasks[self].kind = "fetch" => Running = {self}

BarrierStep ==
    \E self \in TaskIds :
        \/ FetchLoad(self)
        \/ Uninterrupted(self) /\ GetTriggers(self)
        \/ Uninterrupted(self) /\ LoadValid(self)
        \/ Uninterrupted(self) /\ StoreValid(self)
        \/ Uninterrupted(self) /\ LoadPrune(self)
        \/ Uninterrupted(self) /\ StorePruned(self)
        \/ LoadReminders(self)
        \/ StoreStatus(self)
        \/ LoadSnooze(self)
        \/ StoreSnoozed(self)
        \/ SaveFiltered(self)
        \/ Uninterrupted(self) /\ LedgerLoad(self, 0)
        \/ LedgerRemove(self, 0)
        \/ Uninterrupted(self) /\ LedgerSave(self)
        \/ LedgerFind(self)
        \/ BackendCancel(self, 0)
        \/ Uninterrupted(self) /\ BackendCreate(self)
        \/ Uninterrupted(self) /\ Return(self)

NextBarrier ==
    \/ BarrierStep
    \/ OpenApp
    \/ isInitialized /\ Press
    \/ DeleteReminder
    \/ Tick

SpecBarrier == InitBarrier /\ [][NextBarrier]_vars

(* While fetchReminders is between its start and its end, and another      *)
(* handler takes a step.                                                   *)
Reconciling(i) == i \in Running /\ tasks[i].kind = "fetch"

HandlerStepped ==
    \E j \in Running : tasks[j].kind # "fetch" /\ tasks'[j] # tasks[j]

(* C29: reconciliation is a barrier: while the restoration started by      *)
(* fetchReminders has begun and not yet ended, no step of an action        *)
(* handler or of deleteReminder changes the registered triggers or the     *)
(* Ledger.                                                                 *)
C29_ReconciliationIsBarrier ==
    [][(\E i \in TaskIds : Reconciling(i)) /\ HandlerStepped
            => triggers' = triggers /\ ledger' = ledger]_vars

----------------------------------------------------------------------------
(* Two prompts of one reminder answered in the foreground.  The app is     *)
(* open and r1 came due ten minutes ago: its primary prompt and its first  *)
(* escalation prompt are both displayed, and the handler of the second     *)
(* press starts while the handler of the first is awaiting a storage call. *)

InitOverlap ==
    /\ now = PromptTime
    /\ isInitialized = TRUE
    /\ \E count \in InitCounts :
        LET trigger(k) == [id |-> RepeatId("r1", k),
                           timestamp |-> FireTime(FirstDue, k),
                           reminderId |-> "r1", snoozeCount |-> count]
            items == <<InitReminder("r1", FirstDue, count),
                       InitReminder("r2", FirstDue + 60 * MS_PER_MINUTE, 0)>>
        IN
        /\ reminders = [present |-> TRUE, items |-> items]
        /\ hookReminders = items
        /\ displayed = {Shown(trigger(k)) : k \in {0, 5}}
        /\ triggers = {trigger(k) : k \in {10, 15}}
        /\ ledger = {LedgerRow(RepeatId("r1", k), FireTime(FirstDue, k)) :
                            k \in {0} \cup Intervals}
    /\ tasks = [i \in TaskIds |-> IdleTask]
    /\ par = Cardinality(TaskIds)
    /\ ops = MaxOps
    /\ ticks = 0
    /\ lastEvent = NoEvent
    /\ lastDone = NoneDone
    /\ acked = {}
    /\ listeners = (IF isInitialized THEN 1 ELSE 0)
    /\ StoreUnused

(* The interleavings explored are those of the calls on 'reminders'; the   *)
(* calls on the Ledger and the backend run one handler after the other.    *)
OverlapStep ==
    \E self \in TaskIds :
        \/ InTurn(self) /\ LoadReminders(self)
        \/ InTurn(self) /\ StoreStatus(self)
        \/ InTurn(self) /\ LoadSnooze(self)
        \/ InTurn(self) /\ StoreSnoozed(self)
        \/ InTurn(self) /\ LedgerLoad(self, 0)
        \/ InTurn(self) /\ LedgerRemove(self, 0)
        \/ InTurn(self) /\ LedgerSave(self)
        \/ InTurn(self) /\ LedgerFind(self)
        \/ InTurn(self) /\ BackendCancel(self, 0)
        \/ InTurn(self) /\ BackendCreate(self)
        \/ InTurn(self) /\ Return(self)

NextOverlap ==
    \/ OverlapStep
    \/ Press
    \/ Tick

SpecOverlap == InitOverlap /\ [][NextOverlap]_vars

(* The record the store holds for an id, after the step *)
StoredAfter(id) == (reminders.items[findIndex(reminders.items, id)])'

(* C30: every trigger a step registers carries in its payload the          *)
(* snoozeCount the stored record of its reminder has at that moment, and   *)
(* a displayed prompt offers the postpone action exactly when the count in *)
(* its payload is below 3.                                                 *)
C30_PayloadCarriesCount ==
    /\ [][\A n \in triggers' \ triggers :
              findIndex(reminders'.items, n.reminderId) # 0
                  => n.snoozeCount = SnoozeCountOf(StoredAfter(n.reminderId))]_vars
    /\ [](\A d \in displayed :
              "snooze" \in createNotificationActions(d.snoozeCount)
                  <=> d.snoozeCount < 3)

----------------------------------------------------------------------------
(* StorageManager (storage.ts).  A call runs its synchronous part when it  *)
(* is made; what follows an await runs when the awaited promise settles.   *)
(* AsyncStorage answers the requests in the order they were issued, and    *)
(* the code that was waiting for an answer runs to its next await in the   *)
(* same step, followed by the set calls that were waiting for that write.  *)

appVars == <<now, isInitialized, reminders, ledger, triggers, displayed, tasks,
             par, ops, ticks, lastEvent, lastDone, acked, hookReminders,
             listeners>>

(* The calls are made in the order of their numbers *)
NextCall(c) ==
    /\ calls[c].op = "none"
    /\ \A d \in CallIds : d < c => calls[d].op # "none"

Mutations(c, key) ==
    {d \in CallIds : d < c /\ calls[d].key = key /\ calls[d].op \in {"set", "remove"}}

(* What a get made now is entitled to: the value of the last set or remove *)
(* issued for the key, if that call has returned without error             *)
ExpectAt(c, key) ==
    IF Mutations(c, key) = {} THEN NoExpect
    ELSE LET m == CHOOSE d \in Mutations(c, key) :
                        \A e \in Mutations(c, key) : e <= d
         IN  IF calls[m].state # "returned" \/ calls[m].result # Ok
             THEN NoExpect
             ELSE IF calls[m].op = "set" THEN calls[m].value ELSE Absent

(* A set or remove is issued for the key: the gets of that key still in    *)
(* flight are no longer entitled to the earlier value                      *)
Superseded(cs, key) ==
    [d \in CallIds |->
        IF cs[d].op = "get" /\ cs[d].key = key /\ cs[d].state # "returned"
        THEN [cs[d] EXCEPT !.expect = NoExpect] ELSE cs[d]]

(* const writeOperation = (async () => { this.cache.set(key, value);       *)
(*     await AsyncStorage.setItem(...) ... })();                           *)
(* this.pendingWrites.set(key, writeOperation); await writeOperation       *)
StartWrite(st, c) ==
    LET key == st.calls[c].key IN
    [cache |-> [st.cache EXCEPT ![key] = st.calls[c].value],
     pendingWrites |-> [st.pendingWrites EXCEPT ![key] = c],
     native |-> Append(st.native, c),
     calls |-> [st.calls EXCEPT ![c].state = "waitNative", ![c].awaits = 0]]

(* The awaited write operation rejected: `await this.pendingWrites.get(key)` *)
(* throws in the waiting set, which rejects without writing                *)
RejectWaiting(st, c) ==
    [st EXCEPT !.calls[c].state = "returned", !.calls[c].result = Err]

StoreState == [cache |-> cache, pendingWrites |-> pendingWrites,
               native |-> native, calls |-> calls]

(* async get(key) *)
get(c, key) ==
    /\ NextCall(c)
    /\ LET call == [NoCall EXCEPT !.op = "get", !.key = key,
                                  !.expect = ExpectAt(c, key)]
       IN  IF cache[key] # Absent
           THEN /\ calls' = [calls EXCEPT ![c] = [call EXCEPT !.state = "returned",
                                                            !.result = cache[key]]]
                /\ UNCHANGED native
           ELSE /\ calls' = [calls EXCEPT ![c] = [call EXCEPT !.state = "waitNative"]]
                /\ native' = Append(native, c)
    /\ UNCHANGED <<cache, pendingWrites, durable, appVars>>

(* async set(key, value) *)
set(c, key) ==
    /\ NextCall(c)
    /\ LET call == [NoCall EXCEPT !.op = "set", !.key = key,
                                  !.value = ValueOf(c)]
           issued == [StoreState EXCEPT
                        !.calls = [Superseded(calls, key) EXCEPT ![c] = call]]
           after == IF pendingWrites[key] # 0
                    THEN [issued EXCEPT !.calls[c].state = "waitWrite",
                                        !.calls[c].awaits = pendingWrites[key]]
                    ELSE StartWrite(issued, c)
       IN  /\ cache' = after.cache
           /\ pendingWrites' = after.pendingWrites
           /\ native' = after.native
           /\ calls' = after.calls
    /\ UNCHANGED <<durable, appVars>>

(* async remove(key) *)
remove(c, key) ==
    /\ NextCall(c)
    /\ cache' = [cache EXCEPT ![key] = Absent]
    /\ native' = Append(native, c)
    /\ calls' = [Superseded(calls, key) EXCEPT
                    ![c] = [NoCall EXCEPT !.op = "remove", !.key = key,
                                          !.state = "waitNative"]]
    /\ UNCHANGED <<pendingWrites, durable, appVars>>

(* The set calls waiting for the write operation of call c, oldest first *)
RECURSIVE WaitingFrom(_, _)
WaitingFrom(c, d) ==
    IF d \notin CallIds THEN <<>>
    ELSE (IF calls[d].state = "waitWrite" /\ calls[d].awaits = c
          THEN <<d>> ELSE <<>>) \o WaitingFrom(c, d + 1)

RECURSIVE Resume(_, _, _)
Resume(st, waiting, ok) ==
    IF waiting = <<>> THEN st
    ELSE Resume(IF ok THEN StartWrite(st, Head(waiting))
                      ELSE RejectWaiting(st, Head(waiting)),
                Tail(waiting), ok)

(* AsyncStorage answers the oldest request, with success or with an error *)
Answer ==
    /\ native # <<>>
    /\ \E ok \in BOOLEAN :
        LET c == Head(native)
            call == calls[c]
            key == call.key
            read == durable[key]
            answered == [StoreState EXCEPT !.native = Tail(native),
                                           !.calls[c].state = "returned",
                                           !.calls[c].failed = ~ok]
            after ==
                CASE call.op = "get" ->
                        (* if (value) { this.cache.set(key, parsed); return parsed } *)
                        (* return null;   catch: return null                     *)
                        IF ok /\ read # Absent
                        THEN [answered EXCEPT !.cache[key] = read,
                                              !.calls[c].result = read]
                        ELSE [answered EXCEPT !.calls[c].result = Absent]
                  [] call.op = "remove" ->
                        (* catch: console.error only *)
                        [answered EXCEPT !.calls[c].result = Ok]
                  [] OTHER ->
                        (* catch: throw error; finally: pendingWrites.delete(key) *)
                        Resume([answered EXCEPT
                                    !.pendingWrites[key] = 0,
                                    !.calls[c].result = IF ok THEN Ok ELSE Err],
                               WaitingFrom(c, 1), ok)
        IN  /\ durable' = CASE ok /\ call.op = "set" ->
                                    [durable EXCEPT ![key] = call.value]
                            [] ok /\ call.op = "remove" ->
                                    [durable EXCEPT ![key] = Absent]
                            [] OTHER -> durable
            /\ cache' = after.cache
            /\ pendingWrites' = after.pendingWrites
            /\ native' = after.native
            /\ calls' = after.calls
    /\ UNCHANGED appVars

(* The manager has just been created; the key is stored or not *)
InitStore ==
    /\ StoreNew
    /\ durable \in [Keys -> {Absent, Stored0}]
    /\ now = StartTime
    /\ isInitialized = FALSE
    /\ reminders = [present |-> FALSE, items |-> <<>>]
    /\ ledger = {}
    /\ triggers = {}
    /\ displayed = {}
    /\ tasks = [i \in TaskIds |-> IdleTask]
    /\ par = 1
    /\ ops = MaxOps
    /\ ticks = 0
    /\ lastEvent = NoEvent
    /\ lastDone = NoneDone
    /\ acked = {}
    /\ hookReminders = <<>>
    /\ listeners = 0

NextStore ==
    \/ \E c \in CallIds, key \in Keys : get(c, key)
    \/ \E c \in CallIds, key \in Keys : set(c, key)
    \/ \E c \in CallIds, key \in Keys : remove(c, key)
    \/ Answer

SpecStore == InitStore /\ [][NextStore]_vars

(* A get that has returned, made when the last set or remove issued for    *)
(* its key had returned without error, no set or remove for the key having *)
(* been issued before the get returned                                     *)
GetAfter(c, op) ==
    /\ calls[c].op = "get"
    /\ calls[c].state = "returned"
    /\ ~calls[c].failed
    /\ calls[c].expect # NoExpect
    /\ (calls[c].expect = Absent) = (op = "remove")

(* C31: read-your-write: a get made after a set of the key has completed,  *)
(* with no later set or remove of the key issued, returns the value of     *)
(* that set, whatever gets of the key were in flight when the set ran.     *)
C31_ReadYourWrite ==
    \A c \in CallIds : GetAfter(c, "set") => calls[c].result = calls[c].expect

(* The setItem requests for a key that AsyncStorage has not answered yet *)
WritesInFlight(key) ==
    {i \in DOMAIN native :
        calls[native[i]].op = "set" /\ calls[native[i]].key = key}

SetsOf(key) == {c \in CallIds : calls[c].op = "set" /\ calls[c].key = key}

(* Every call made has returned, none with an I/O error *)
Quiescent ==
    /\ native = <<>>
    /\ \A c \in CallIds : calls[c].op # "none" =>
            calls[c].state = "returned" /\ ~calls[c].failed

(* C32: set calls to one key are serialized, however many overlap: at most *)
(* one durable write for the key is in flight at any time, a write is      *)
(* applied only after the writes of the sets issued before it, and once    *)
(* all calls have returned the durable value and the cached value are the  *)
(* value of the set issued last.                                           *)
C32_SetsSerialized ==
    /\ [](\A key \in Keys : Cardinality(WritesInFlight(key)) <= 1)
    /\ [][\A key \in Keys : \A c \in SetsOf(key) :
              durable'[key] # durable[key] /\ durable'[key] = calls[c].value
                  => \A d \in SetsOf(key) : d < c => calls'[d].state = "returned"]_vars
    /\ [](\A key \in Keys :
              (/\ Quiescent
               /\ SetsOf(key) # {}
               /\ \A c \in CallIds : calls[c].key = key => calls[c].op = "set")
              => LET last == CHOOSE c \in SetsOf(key) : \A d \in SetsOf(key) : d <= c
                 IN  durable[key] = calls[last].value /\ cache[key] = calls[last].value)

(* C33: a set whose durable write fails leaves the cache as if it had not  *)
(* been called: when the failed set returns, the cached value of the key   *)
(* is not the value that set was given.                                    *)
C33_FailedSetLeavesCache ==
    [][\A c \in CallIds :
          (/\ calls[c].op = "set"
           /\ calls[c].state = "waitNative"
           /\ calls'[c].state = "returned"
           /\ calls'[c].failed)
              => cache'[calls[c].key] # calls[c].value]_vars

(* C34: a get made after a remove of the key has completed, with no later  *)
(* set of the key issued, returns absent, and then the cache has no entry  *)
(* for the key and the durable value is absent, whatever gets and sets of  *)
(* the key were in flight when the remove ran.                             *)
C34_RemoveThenAbsent ==
    \A c \in CallIds :
        GetAfter(c, "remove")
            => /\ calls[c].result = Absent
               /\ cache[calls[c].key] = Absent
               /\ durable[calls[c].key] = Absent

(* C35: a durable I/O error during get, set or remove reaches the caller:  *)
(* the call whose request failed returns the error.                        *)
C35_ErrorsPropagate ==
    \A c \in CallIds :
        calls[c].state = "returned" /\ calls[c].failed => calls[c].result = Err

----------------------------------------------------------------------------
(* The write of 'reminders' fails.  AsyncStorage.setItem rejects inside a  *)
(* handler: nothing is stored.  The event handlers have one try around the *)
(* whole body, whose catch logs the error, so the handler returns          *)
(* normally (and index.js goes on to cancel the pressed notification);     *)
(* saveReminders and updateReminderStatus log the error and throw it again. *)

StoreFailure == <<"reminders", 0>>

StoreThrows(self) ==
    LET t == tasks[self] IN
    /\ t.kind \in EventKinds \cup {"update"}
    /\ InstrOf(t, 0).op \in {"storeTaken", "storeMissed", "storeSnoozed",
                             "saveFiltered"}
    /\ t.failed = {}
    /\ Continue(self,
                IF t.kind = "update"
                THEN [t EXCEPT !.failed = {StoreFailure}, !.items = <<>>,
                               !.result = "error",
                               !.pc = Len(Program(t.kind)) + 1]
                ELSE [t EXCEPT !.failed = {StoreFailure}, !.items = <<>>,
                               !.pc = ReturnPc(t.kind)])
    /\ UNCHANGED <<storeVars, listeners,
                   now, isInitialized, reminders, ledger, triggers, displayed,
                   par, ops, ticks, lastEvent, lastDone, acked, hookReminders>>

(* A prompt of r1 is answered, with the app open (the manager's handlers   *)
(* and the in-app status update) or with the process not running (the     *)
(* headless handlers), and the write of the record may fail.               *)
InitFail ==
    /\ now = PromptTime
    /\ isInitialized \in BOOLEAN
    /\ \E count \in InitCounts :
        LET trigger(k) == [id |-> RepeatId("r1", k),
                           timestamp |-> FireTime(FirstDue, k),
                           reminderId |-> "r1", snoozeCount |-> count]
        IN
        /\ reminders = [present |-> TRUE,
                        items |-> <<InitReminder("r1", FirstDue, count),
                                    InitReminder("r2", FirstDue + 60 * MS_PER_MINUTE, 0)>>]
        /\ displayed = {Shown(trigger(k)) : k \in {0, 5}}
        /\ triggers = {trigger(k) : k \in {10, 15}}
        /\ ledger = {LedgerRow(RepeatId("r1", k), FireTime(FirstDue, k)) :
                            k \in IF isInitialized THEN {10, 15}
                                                   ELSE {0} \cup Intervals}
    /\ hookReminders = (IF isInitialized THEN reminders.items ELSE <<>>)
    /\ tasks = [i \in TaskIds |-> IdleTask]
    /\ par = 1
    /\ ops = MaxOps
    /\ ticks = 0
    /\ lastEvent = NoEvent
    /\ lastDone = NoneDone
    /\ acked = {}
    /\ listeners = (IF isInitialized THEN 1 ELSE 0)
    /\ StoreUnused

FailStep ==
    \E self \in TaskIds :
        \/ LoadReminders(self)
        \/ StoreStatus(self)
        \/ LoadSnooze(self)
        \/ StoreSnoozed(self)
        \/ SaveFiltered(self)
        \/ StoreThrows(self)
        \/ \E b \in {0} \cup Branches : InOrder(self, b) /\ LedgerLoad(self, b)
        \/ \E b \in {0} \cup Branches : InOrder(self, b) /\ LedgerRemove(self, b)
        \/ LedgerSave(self)
        \/ LedgerFind(self)
        \/ \E b \in {0} \cup Branches : InOrder(self, b) /\ BackendCancel(self, b)
        \/ CancelPressed(self)
        \/ BackendCreate(self)
        \/ AwaitAll(self)
        \/ MissingExport(self)
        \/ Return(self)

NextFail ==
    \/ FailStep
    \/ Press
    \/ UpdateStatus

SpecFail == InitFail /\ [][NextFail]_vars

(* An action whose write of the record list failed has returned *)
WriteFailed ==
    /\ lastDone.kind \in EventKinds \cup {"update"}
    /\ StoreFailure \in lastDone.failed

(* C36: when the write of the record list fails during take, skip or       *)
(* postpone, the caller of the action gets the error, and the action has   *)
(* cancelled and registered no trigger.                                    *)
C36_WriteFailurePropagates ==
    WriteFailed
        => /\ lastDone.result = "error"
           /\ lastDone.post.triggers = lastDone.pre.triggers

----------------------------------------------------------------------------
(* A prompt outlives its record.  The app is open, r1's primary prompt and *)
(* its first escalation prompt are displayed and the row of the primary    *)
(* trigger has been pruned; the user deletes a reminder in the app.        *)
(* deleteReminder stores the list without the record; cancelNotification   *)
(* finds no row of the primary trigger and leaves its prompt displayed.    *)
(* The prompt is then answered, in the app or after the process was ended. *)
GoneStep ==
    \E self \in TaskIds :
        \/ SaveFiltered(self)
        \/ LedgerFind(self)
        \/ LoadReminders(self)
        \/ StoreStatus(self)
        \/ LoadSnooze(self)
        \/ StoreSnoozed(self)
        \/ \E b \in {0} \cup Branches : InOrder(self, b) /\ LedgerLoad(self, b)
        \/ \E b \in {0} \cup Branches : InOrder(self, b) /\ LedgerRemove(self, b)
        \/ \E b \in {0} \cup Branches : InOrder(self, b) /\ BackendCancel(self, b)
        \/ LedgerSave(self)
        \/ CancelPressed(self)
        \/ BackendCreate(self)
        \/ AwaitAll(self)
        \/ MissingExport(self)
        \/ Return(self)

NextGone ==
    \/ GoneStep
    \/ DeleteReminder
    \/ Press
    \/ KillApp

SpecGone == InitAck /\ [][NextGone]_vars

(* An action event has been handled whose reminder id no record had *)
UnknownIdHandled ==
    /\ lastDone.kind \in EventKinds
    /\ findIndex(lastDone.pre.reminders, lastDone.rid) = 0

(* C37: an action event whose reminder id matches no stored record leaves  *)
(* every stored record as it was, registers no trigger and raises no error *)
(* to its caller.                                                          *)
C37_UnknownIdIsNoOp ==
    UnknownIdHandled
        => /\ lastDone.post.reminders = lastDone.pre.reminders
           /\ lastDone.post.triggers \subseteq lastDone.pre.triggers
           /\ lastDone.result # "error"

C37_Witness ==
    /\ UnknownIdHandled
    /\ lastDone.pre.reminders # <<>>
    /\ lastDone.kind \in TakeKinds \cup SnoozeKinds

----------------------------------------------------------------------------
(* Two registrations in flight.  scheduleNotification is a public method   *)
(* that nothing serializes: the screen's scheduleReminders, a postpone     *)
(* handler and restoreNotifications all call it, and each call's           *)
(* saveScheduledNotification reads the Ledger, awaits, and writes it back. *)
(* Two reminders are stored, pending and due later; no trigger is          *)
(* registered yet.                                                         *)
InitRegister ==
    /\ now = StartTime
    /\ isInitialized = TRUE
    /\ listeners = 1
    /\ \E count \in InitCounts :
        reminders = [present |-> TRUE,
                     items |-> <<InitReminder("r1", FirstDue, count),
                                 InitReminder("r2", FirstDue + 60 * MS_PER_MINUTE, 0)>>]
    /\ hookReminders = reminders.items
    /\ triggers = {}
    /\ ledger = {}
    /\ displayed = {}
    /\ tasks = [i \in TaskIds |-> IdleTask]
    /\ par = Cardinality(TaskIds)
    /\ ops = MaxOps
    /\ ticks = 0
    /\ lastEvent = NoEvent
    /\ lastDone = NoneDone
    /\ acked = {}
    /\ StoreUnused

RegisterStep ==
    \E self \in TaskIds :
        \/ BackendCreate(self)
        \/ LedgerLoad(self, 0)
        \/ LedgerSave(self)
        \/ Return(self)

NextRegister ==
    \/ RegisterStep
    \/ RegisterOf(Ids)

SpecRegister == InitRegister /\ [][NextRegister]_vars

(* The live triggers of a reminder / the Ledger rows of those triggers *)
LiveIdsOf(id) == {tr.id : tr \in {x \in triggers : x.reminderId = id}}

RowIds == {n.notificationId : n \in ledger}

(* Both calls have returned, one for each reminder, and each registered *)
BothRegistered ==
    /\ Running = {}
    /\ lastDone.kind = "register"
    /\ \A id \in Ids : LiveIdsOf(id) # {}

(* C38: after two interleaved Register calls for different reminders have *)
(* both returned, every trigger either call registered (primary and       *)
(* escalation) has its row in the Ledger.                                 *)
C38_InterleavedRegistersKeepRows ==
    BothRegistered => \A id \in Ids : LiveIdsOf(id) \subseteq RowIds

----------------------------------------------------------------------------
(* A postpone event has been handled for a record that was already taken *)
(* or missed when the handler started                                    *)
PostponedAfterDecision ==
    /\ lastDone.kind \in SnoozeKinds
    /\ HasRecord(lastDone.pre.reminders, lastDone.rid)
    /\ IsTerminal(RecordOf(lastDone.pre.reminders, lastDone.rid).status)

(* The fields a postpone changes *)
ScheduleOf(items, id) ==
    LET r == RecordOf(items, id) IN <<r.date, r.time, r.snoozeCount>>

(* A trigger is created for a reminder whose stored status is terminal *)
RegistersForDecided ==
    \E tr \in triggers' \ triggers :
        /\ HasRecord(reminders.items, tr.reminderId)
        /\ IsTerminal(RecordOf(reminders.items, tr.reminderId).status)

(* C39: no trigger is registered for a reminder that is taken or missed;   *)
(* a postpone event arriving after the decision registers nothing and      *)
(* leaves the record's date, time and snoozeCount as they were.            *)
C39_NoTriggerAfterDecision ==
    /\ [](PostponedAfterDecision
            => /\ lastDone.post.triggers \subseteq lastDone.pre.triggers
               /\ ScheduleOf(lastDone.post.reminders, lastDone.rid)
                    = ScheduleOf(lastDone.pre.reminders, lastDone.rid))
    /\ [][~RegistersForDecided]_vars

----------------------------------------------------------------------------
(* Start-up.  The screen mounts: one effect calls                          *)
(* NotificationManager.initialize(), and scheduleNotification is called    *)
(* (by restoreNotifications or by the screen) while that call is still     *)
(* awaiting the permission request.  Both calls found isInitialized unset, *)
(* so each goes on to setupEventHandlers(); notifee.onForegroundEvent adds *)
(* one more listener per call, and an action press is delivered to every   *)
(* listener.  r1's prompts are already displayed when the app is opened.   *)
InitMount ==
    /\ now = PromptTime
    /\ isInitialized = FALSE
    /\ listeners = 0
    /\ hookReminders = <<>>
    /\ \E count \in InitCounts :
        LET trigger(k) == [id |-> RepeatId("r1", k),
                           timestamp |-> FireTime(FirstDue, k),
                           reminderId |-> "r1", snoozeCount |-> count]
        IN
        /\ reminders = [present |-> TRUE,
                        items |-> <<InitReminder("r1", FirstDue, count),
                                    InitReminder("r2", FirstDue + 60 * MS_PER_MINUTE, 0)>>]
        /\ displayed = {Shown(trigger(k)) : k \in {0, 5}}
        /\ triggers = {trigger(k) : k \in {10, 15}}
        /\ ledger = {LedgerRow(RepeatId("r1", k), FireTime(FirstDue, k)) :
                            k \in {0} \cup Intervals}
    /\ tasks = [i \in TaskIds |-> IdleTask]
    /\ par = Cardinality(TaskIds)
    /\ ops = MaxOps
    /\ ticks = 0
    /\ lastEvent = NoEvent
    /\ lastDone = NoneDone
    /\ acked = {}
    /\ StoreUnused

(* useReminders, the effect run on mount: init() calls initialize() *)
Mount ==
    /\ ~isInitialized
    /\ Running = {}
    /\ hookReminders = <<>>
    /\ tasks' = [tasks EXCEPT ![FreeSlot] = NewTask("init", "none", NoId, 0, 0, FALSE)]
    /\ hookReminders' = reminders.items
    /\ lastDone' = NoneDone
    /\ lastEvent' = NoEvent
    /\ UNCHANGED <<storeVars, listeners,
                   now, isInitialized, reminders, ledger, triggers,
                   displayed, par, ops, ticks, acked>>

(* An action is pressed on a displayed prompt while the app is in the     *)
(* foreground: every registered foreground listener runs its handler.     *)
PressForeground ==
    \E d \in displayed : \E action \in createNotificationActions(d.snoozeCount) :
        /\ isInitialized
        /\ Running = {}
        /\ ops > 0
        /\ tasks' = [i \in TaskIds |->
                        IF i <= listeners
                        THEN NewTask(HandlerKind(action), d.reminderId, d.id,
                                     0, 0, FALSE)
                        ELSE IdleTask]
        /\ ops' = ops - 1
        /\ lastDone' = NoneDone
        /\ lastEvent' = NoEvent
        /\ UNCHANGED <<storeVars, listeners,
                       now, isInitialized, reminders, ledger, triggers,
                       displayed, par, ticks, acked, hookReminders>>

MountStep ==
    \E self \in TaskIds :
        \/ EnsureInit(self)
        \/ InTurn(self) /\ LoadReminders(self)
        \/ InTurn(self) /\ StoreStatus(self)
        \/ InTurn(self) /\ LoadSnooze(self)
        \/ InTurn(self) /\ StoreSnoozed(self)
        \/ InTurn(self) /\ LedgerLoad(self, 0)
        \/ InTurn(self) /\ LedgerRemove(self, 0)
        \/ InTurn(self) /\ LedgerSave(self)
        \/ InTurn(self) /\ LedgerFind(self)
        \/ InTurn(self) /\ BackendCancel(self, 0)
        \/ InTurn(self) /\ BackendCreate(self)
        \/ InTurn(self) /\ Return(self)

NextMount ==
    \/ MountStep
    \/ Mount
    \/ hookReminders # <<>> /\ RegisterOf(Ids)
    \/ PressForeground

SpecMount == InitMount /\ [][NextMount]_vars

(* The handlers that start in one step *)
HandlersStarted ==
    {i \in TaskIds : tasks[i].kind = "idle" /\ tasks'[i].kind \in EventKinds}

(* C40: however the calls of initialize overlap, the action event handlers *)
(* are registered once, and one press of an action starts one handler.     *)
C40_HandlersRegisteredOnce ==
    /\ [](isInitialized => listeners = 1)
    /\ [][Cardinality(HandlersStarted) <= 1]_vars

============================================================================
